---- MODULE Spec2Model ----
(***************************************************************************)
(* A model of the knowledge-base sync CLI of the blog repository:          *)
(*   scripts/db.ts    the embedded SQL store (table resources)             *)
(*   scripts/sync.ts  fetchWithRetry, the six sync functions, the TMDB     *)
(*                    commands and main                                    *)
(*                                                                         *)
(* Optional values (undefined / null / SQL NULL) are None == <<>> and      *)
(* Some(x) == <<x>>.  Strings that the code parses (Retry-After, the       *)
(* positional id) are sequences of one-character strings.  Time is the     *)
(* number of milliseconds the timers of delay() have let pass since the    *)
(* last response was received.                                             *)
(***************************************************************************)
EXTENDS Integers, Sequences, FiniteSets, TLC

VARIABLES
    \* ---- the store (scripts/db.ts)
    rows,       \* the rows of table resources (a set of records)
    dbOpen,     \* whether this process holds an open database handle
    \* ---- direct calls of the exported functions
    dbCall,     \* the last direct call of upsertResource and its outcome
    dbCalls,    \* number of direct calls of upsertResource made so far
    fetchCalls, \* number of direct calls of fetchWithRetry made so far
    \* ---- the site (src/lib, src/components)
    lib,        \* buildTagHierarchy: its arguments and, once called, its result
    ex,         \* the explorer component mounted in the browser, if any
    publicData, \* public/data/library.json and now.json, as the exports wrote them
    curated,    \* the rows updateResourceStatus was applied to, as its last call left them
    \* ---- the network
    fw,         \* the activation of fetchWithRetry, if any
    sinceResp,  \* ms of timer delay elapsed since the last response arrived
    inflight,   \* number of requests sent and not yet answered
    reqLog,     \* the requests issued by this process, in order
    faults,     \* how many more non-200 responses the servers will give
    \* ---- the process (main of scripts/sync.ts)
    argv,       \* the positionals and the options of this run
    cmds,       \* the command lines the user may type in this scenario
    runLimit,   \* how many times the user runs the CLI in this scenario
    envKeys,    \* the environment variables that are set
    mainPc,     \* where main is
    step,       \* index in the plan of the sync function main awaits
    total,      \* main's running total
    events,     \* start and return of the sync functions of this run
    runs,       \* number of process runs started
    rows0,      \* the rows when this run started
    upsertLog,  \* the ids passed to upsertResource in this run, in order
    \* ---- the sync functions
    pc,         \* where each sync function is
    result,     \* the count each sync function returned
    rw,         \* locals of syncReadwise
    zot,        \* locals of syncZotero
    lb,         \* locals of syncLetterboxd
    rawg,       \* locals of syncRawg
    \* ---- the world outside
    rwServer,   \* the pages the Readwise list endpoint serves
    zotSize,    \* the number of top-level items of the Zotero library
    files,      \* the local export files
    lbFeeds,    \* the Letterboxd RSS feeds
    rawgServer, \* the pages the RAWG endpoint serves
    tmdbMovies  \* the movie ids TMDB knows

storeVars == <<rows, dbOpen>>

siteVars == <<lib, ex, publicData, curated>>

directVars == <<dbCall, dbCalls, fetchCalls, siteVars>>

netVars == <<fw, sinceResp, inflight, reqLog, faults>>

mainVars == <<argv, mainPc, step, total, events, runs, rows0>>

syncVars == <<pc, result, rw, zot, lb, rawg>>

worldVars == <<cmds, runLimit, envKeys, rwServer, zotSize, files, lbFeeds, rawgServer, tmdbMovies>>

vars == <<storeVars, directVars, netVars, mainVars, upsertLog, syncVars, worldVars>>

(***************************************************************************)
(* Optional values                                                         *)
(***************************************************************************)
None == <<>>

Some(x) == <<x>>

\* a ?? b
Nullish(a, b) == IF a = None THEN b ELSE a

\* SQL COALESCE(a, b)
Coalesce(a, b) == IF a # None THEN a ELSE b

\* JSON.stringify of a value: the stored text, not the value itself
JsonStringify(v) == [json |-> v]

(***************************************************************************)
(* scripts/db.ts: upsertResource                                           *)
(***************************************************************************)

\* The values bound to the INSERT (stmt.run): the row "excluded".
InsertValues(r) ==
    [ id              |-> r.id,
      type            |-> r.type,
      title           |-> r.title,
      url             |-> Nullish(r.url, None),
      author          |-> Nullish(r.author, None),
      description     |-> Nullish(r.description, None),
      tags            |-> IF r.tags # None THEN Some(JsonStringify(r.tags[1])) ELSE None,
      source          |-> r.source,
      source_id       |-> Nullish(r.source_id, None),
      metadata        |-> IF r.metadata # None THEN Some(JsonStringify(r.metadata[1])) ELSE None,
      status          |-> Nullish(r.status, None),
      status_manual   |-> Nullish(r.status_manual, Some(0)),
      platform_status |-> Nullish(r.platform_status, None),
      favorited       |-> Nullish(r.favorited, Some(0)),
      rating          |-> Nullish(r.rating, None),
      queue_priority  |-> Nullish(r.queue_priority, None),
      image_url       |-> Nullish(r.image_url, None),
      date_published  |-> Nullish(r.date_published, None) ]

\* ON CONFLICT(id) DO UPDATE SET ...: the stored row after the update.
\* status_manual is not in the SET list and keeps its stored value.
DoUpdateSet(old, excluded) ==
    [ id              |-> old.id,
      type            |-> excluded.type,
      title           |-> excluded.title,
      url             |-> excluded.url,
      author          |-> excluded.author,
      description     |-> excluded.description,
      tags            |-> excluded.tags,
      source          |-> excluded.source,
      source_id       |-> excluded.source_id,
      metadata        |-> excluded.metadata,
      platform_status |-> excluded.platform_status,
      image_url       |-> Coalesce(excluded.image_url, old.image_url),
      date_published  |-> Coalesce(excluded.date_published, old.date_published),
      status          |-> IF old.status_manual = Some(1) THEN old.status ELSE excluded.status,
      queue_priority  |-> IF old.status_manual = Some(1) THEN old.queue_priority
                                                         ELSE excluded.queue_priority,
      favorited       |-> Coalesce(excluded.favorited, old.favorited),
      rating          |-> Coalesce(excluded.rating, old.rating),
      status_manual   |-> old.status_manual ]

\* UNIQUE(source, source_id) of the schema: a row with a non-NULL source_id
\* may not share (source, source_id) with another row (NULLs are distinct).
UniqueViolated(others, row) ==
    /\ row.source_id # None
    /\ \E x \in others : x.source = row.source /\ x.source_id = row.source_id

\* INSERT ... ON CONFLICT(id) DO UPDATE.  The upsert clause handles a conflict
\* on id only; a violation of UNIQUE(source, source_id) aborts the statement,
\* which throws and leaves the table as it was.
upsertResource(table, resource) ==
    LET excluded == InsertValues(resource)
        hit      == {x \in table : x.id = excluded.id}
    IN  IF hit = {}
        THEN IF UniqueViolated(table, excluded)
             THEN [rows |-> table, threw |-> TRUE]
             ELSE [rows |-> table \cup {excluded}, threw |-> FALSE]
        ELSE LET old     == CHOOSE x \in hit : TRUE
                 updated == DoUpdateSet(old, excluded)
             IN  IF UniqueViolated(table \ {old}, updated)
                 THEN [rows |-> table, threw |-> TRUE]
                 ELSE [rows |-> (table \ {old}) \cup {updated}, threw |-> FALSE]

(***************************************************************************)
(* scripts/sync.ts: rate limiting                                          *)
(***************************************************************************)
READWISE_DELAY_MS == 3500

ZOTERO_DELAY_MS == 1100

MAX_RETRIES == 3

\* The wait of fetchWithRetry when a 429 carries no Retry-After.
DEFAULT_WAIT_MS == 60000

\* The delay between two pages of syncRawg.
RAWG_DELAY_MS == 500

DigitChars == <<"0", "1", "2", "3", "4", "5", "6", "7", "8", "9">>

IsDigit(c) == \E d \in 1..10 : DigitChars[d] = c

DigitVal(c) == (CHOOSE d \in 1..10 : DigitChars[d] = c) - 1

RECURSIVE StripLeft(_)
StripLeft(s) == IF s # <<>> /\ Head(s) = " " THEN StripLeft(Tail(s)) ELSE s

RECURSIVE DigitsPrefix(_, _, _)
DigitsPrefix(s, acc, seen) ==
    IF s # <<>> /\ IsDigit(Head(s))
    THEN DigitsPrefix(Tail(s), acc * 10 + DigitVal(Head(s)), TRUE)
    ELSE IF seen THEN Some(acc) ELSE None

\* Number.parseInt(text, 10): leading blanks, a sign, then the longest run of
\* digits; None is NaN.
ParseInt(text) ==
    LET t == StripLeft(text)
        signed == t # <<>> /\ Head(t) \in {"-", "+"}
        v == DigitsPrefix(IF signed THEN Tail(t) ELSE t, 0, FALSE)
    IN  IF v = None THEN None
        ELSE IF signed /\ Head(t) = "-" THEN Some(0 - v[1]) ELSE v

RECURSIVE DecimalText(_)
\* The decimal text of a natural number (a header value a server writes).
DecimalText(n) ==
    IF n < 10 THEN <<DigitChars[n + 1]>>
    ELSE Append(DecimalText(n \div 10), DigitChars[(n % 10) + 1])

\* A string is truthy when it is not empty; null and undefined are not.
Truthy(opt) == opt # None /\ opt[1] # <<>>

\* fetchWithRetry: response.status === 429 && retries > 0
ShouldRetryOffByOne(status, retries) == status = 429 /\ retries >= 0

ShouldRetry(status, retries) == status = 429 /\ retries > 0

\* fetchWithRetry: retryAfter ? Number.parseInt(retryAfter, 10) * 1000 : 60000
\* (None is NaN).  retryAfter is headers.get("Retry-After"): the header text.
WaitMs(retryAfter) ==
    IF Truthy(retryAfter)
    THEN LET n == ParseInt(retryAfter[1])
         IN  IF n = None THEN None ELSE Some(n[1] * 1000)
    ELSE Some(DEFAULT_WAIT_MS)

\* delay(ms): the time that has passed when the timer of setTimeout(resolve,
\* ms) fires, taken as the least the timer guarantees; a NaN or negative
\* timeout fires at once.
TimerMs(ms) == IF ms = None \/ ms[1] < 0 THEN 0 ELSE ms[1]

Elapse(since, ms) == IF since = None THEN None ELSE Some(since[1] + TimerMs(ms))

FwIdle ==
    [pc |-> "idle", caller |-> "none", key |-> None, ord |-> 0, retries |-> 0,
     reqs |-> 0, resps |-> <<>>, waitMs |-> None, hdr |-> None,
     response |-> [status |-> 0]]

\* A request leaves: what the log keeps of it.  gap is the timer delay elapsed
\* since the last response arrived (None before any response).
Request(api, kind, key, ord, gap, waitMs, hdr) ==
    [api |-> api, kind |-> kind, key |-> key, ord |-> ord, gap |-> gap,
     waitMs |-> waitMs, hdr |-> hdr]

\* fetchWithRetry(url, options) with the default retries: the activation
\* after its first line, await fetch(url, options), has sent the request.
FwCall(caller, key, ord) ==
    [FwIdle EXCEPT !.pc = "fetch", !.caller = caller, !.key = key, !.ord = ord,
                   !.retries = MAX_RETRIES, !.reqs = 1]

(***************************************************************************)
(* The servers: what a request is answered with                            *)
(***************************************************************************)

\* The Retry-After headers a 429 may carry: delay-seconds, or an HTTP-date
\* (RFC 9110).  text is the header as sent; secs is the wait it asks for.
RetryAfterHeaders ==
    { [text |-> <<"2">>, secs |-> 2],
      [text |-> <<"1", "0">>, secs |-> 10],
      [text |-> <<"W", "e", "d", ",", " ", "2", "1">>, secs |-> 30] }

\* A Readwise document of the list endpoint, by id.
RwDoc(id) ==
    IF id % 2 = 1
    THEN [id |-> id, url |-> Some("https://a"), title |-> Some("A title"),
          author |-> Some("An author"), summary |-> Some("A summary"),
          image_url |-> Some("https://img"), published_date |-> Some("2024"),
          category |-> "pdf", tags |-> <<"ai", "">>, created_at |-> "2025"]
    ELSE [id |-> id, url |-> Some(""), title |-> Some(""),
          author |-> None, summary |-> None,
          image_url |-> None, published_date |-> None,
          category |-> "podcast", tags |-> <<>>, created_at |-> "2025"]

\* Page k of the Readwise list: its documents and its nextPageCursor (null,
\* the empty string, or the cursor of page k + 1).
RwPageBody(k) ==
    LET page == rwServer[k]
    IN  [results |-> [j \in 1..page.n |-> RwDoc(k * 10 + j)],
         nextPageCursor |-> CASE page.next = "more"  -> Some(<<k + 1>>)
                              [] page.next = "empty" -> Some(<<>>)
                              [] OTHER               -> None]

\* The page a Readwise request asks for: the first without pageCursor.
RwPageOf(cursor) == IF cursor = None THEN 1 ELSE cursor[1][1]

\* syncZotero: const limit = 100
ZOTERO_LIMIT == 100

Min(a, b) == IF a < b THEN a ELSE b

\* items/top?limit=..&start=..: the keys start+1 .. start+limit of the
\* library, with the header Total-Results.
ZotPageBody(start) ==
    [items |-> [j \in 1..(IF start < zotSize THEN Min(ZOTERO_LIMIT, zotSize - start) ELSE 0)
                  |-> start + j],
     totalResults |-> Some(DecimalText(zotSize))]

\* A Zotero item, by key.
ZotItem(key) ==
    IF key % 2 = 1
    THEN [key |-> key, itemType |-> "journalArticle", title |-> "A paper",
          url |-> "https://doi", abstractNote |-> "An abstract",
          creators |-> << [creatorType |-> "author", name |-> "",
                           firstName |-> "Ada", lastName |-> "Lovelace"],
                          [creatorType |-> "editor", name |-> "Ed",
                           firstName |-> "", lastName |-> ""] >>,
          date |-> "2023", tags |-> <<"ml">>, dateAdded |-> "2025"]
    ELSE [key |-> key, itemType |-> "artwork", title |-> "",
          url |-> "", abstractNote |-> "", creators |-> <<>>,
          date |-> "", tags |-> <<>>, dateAdded |-> "2025"]

\* Page k of the RAWG collection: its games and the next url.
RawgPageBody(k) ==
    [results |-> [j \in 1..rawgServer[k] |-> k * 10 + j],
     next |-> IF k < Len(rawgServer) THEN Some(k + 1) ELSE None]

FwBody(caller, key) ==
    CASE caller = "readwise" -> RwPageBody(RwPageOf(key))
      [] caller = "zotero"   -> ZotPageBody(key[1])
      [] OTHER               -> [none |-> TRUE]

Ok(response) == response.status >= 200 /\ response.status <= 299

\* What a server may answer: the page asked for, or, while the scenario
\* allows faults, a rate limit (with or without Retry-After) or an error.
FaultResponses ==
    {[status |-> 429, retryAfter |-> None]}
    \cup {[status |-> 429, retryAfter |-> Some(h)] : h \in RetryAfterHeaders}
    \cup {[status |-> 500, retryAfter |-> None]}

(***************************************************************************)
(* scripts/sync.ts: fetchWithRetry                                         *)
(***************************************************************************)

\* The response of the pending fetch arrives and fetchWithRetry runs on to
\* its next await (the delay before a retry) or to its return.
FwHandle(response) ==
    /\ sinceResp' = Some(0)
    /\ inflight' = inflight - 1
    /\ IF ShouldRetry(response.status, fw.retries)
       THEN fw' = [fw EXCEPT !.pc = "delay",
                             !.resps = Append(fw.resps, response.status),
                             !.waitMs = WaitMs(IF response.retryAfter = None THEN None
                                               ELSE Some(response.retryAfter[1].text)),
                             !.hdr = response.retryAfter]
       ELSE fw' = [fw EXCEPT !.pc = "returned",
                             !.resps = Append(fw.resps, response.status),
                             !.response = response]

FwResponse ==
    /\ fw.pc = "fetch"
    /\ \/ /\ FwHandle([status |-> 200, retryAfter |-> None,
                       body |-> FwBody(fw.caller, fw.key)])
          /\ UNCHANGED faults
       \/ /\ faults > 0
          /\ \E response \in FaultResponses : FwHandle(response)
          /\ faults' = faults - 1
    /\ UNCHANGED <<storeVars, directVars, reqLog, mainVars, upsertLog, syncVars, worldVars>>

\* await delay(waitMs) is over: return fetchWithRetry(url, options, retries - 1)
\* sends the request again.
FwDelayElapsed ==
    /\ fw.pc = "delay"
    /\ sinceResp' = Elapse(sinceResp, fw.waitMs)
    /\ fw' = [fw EXCEPT !.pc = "fetch", !.retries = fw.retries - 1, !.reqs = fw.reqs + 1]
    /\ inflight' = inflight + 1
    /\ reqLog' = Append(reqLog, Request(fw.caller, "retry", fw.key, fw.ord,
                                        sinceResp', fw.waitMs, fw.hdr))
    /\ UNCHANGED <<storeVars, directVars, faults, mainVars, upsertLog, syncVars, worldVars>>

(***************************************************************************)
(* scripts/sync.ts: the sync functions                                     *)
(***************************************************************************)
Syncs == {"books", "music", "readwise", "zotero", "letterboxd", "rawg"}

\* x || undefined, for an optional string
OrUndefined(x) == IF x = None \/ x[1] = "" THEN None ELSE x

\* x || d, for an optional string
OrDefault(x, d) == IF x = None \/ x[1] = "" THEN d ELSE x[1]

\* The fields of a Resource a sync function leaves out.
Omitted ==
    [ url |-> None, author |-> None, description |-> None, tags |-> None,
      source_id |-> None, metadata |-> None, image_url |-> None,
      date_published |-> None, status |-> None, status_manual |-> None,
      platform_status |-> None, favorited |-> None, rating |-> None,
      queue_priority |-> None ]

\* The calls upsertResource(db, r) of a loop over resources[lo..hi], in order,
\* until one throws (each statement commits on its own): the table afterwards,
\* the ids passed, whether the loop was left by a throw.
RECURSIVE UpsertRange(_, _, _, _)
UpsertRange(table, resources, lo, hi) ==
    IF lo > hi
    THEN [rows |-> table, threw |-> FALSE, passed |-> <<>>]
    ELSE IF lo = hi
    THEN LET out == upsertResource(table, resources[lo])
         IN  [rows |-> out.rows, threw |-> out.threw, passed |-> <<resources[lo].id>>]
    ELSE LET mid  == (lo + hi) \div 2
             left == UpsertRange(table, resources, lo, mid)
         IN  IF left.threw
             THEN left
             ELSE LET right == UpsertRange(left.rows, resources, mid + 1, hi)
                  IN  [rows |-> right.rows, threw |-> right.threw,
                       passed |-> left.passed \o right.passed]

UpsertAll(table, resources) == UpsertRange(table, resources, 1, Len(resources))

\* A sync function returns n (its promise resolves).
Return(f, n) ==
    /\ pc' = [pc EXCEPT ![f] = "returned"]
    /\ result' = [result EXCEPT ![f] = n]

\* The loop of upsertResource calls that ends a sync function, and its
\* return count (one count++ per call that returned).
UpsertAndReturn(f, resources) ==
    LET out == UpsertAll(rows, resources)
    IN  /\ rows' = out.rows
        /\ upsertLog' = upsertLog \o out.passed
        /\ IF out.threw
           THEN pc' = [pc EXCEPT ![f] = "threw"] /\ UNCHANGED result
           ELSE Return(f, Len(resources))

\* ---- syncBooks ----------------------------------------------------------

\* Exclusive Shelf -> (platform_status, status)
ShelfStatus(shelf) ==
    CASE shelf = "currently-reading" -> [platform_status |-> Some(shelf), status |-> Some("now")]
      [] shelf = "to-read"           -> [platform_status |-> Some(shelf), status |-> None]
      [] shelf = "read"              -> [platform_status |-> Some(shelf), status |-> Some("done")]
      [] OTHER                       -> [platform_status |-> None, status |-> None]

\* The Resource of one line of the Goodreads export.  The lines of the file
\* are taken as parsed (parseCSVLine), each with a Book Id.
BookResource(b) ==
    [Omitted EXCEPT !.author = Some(b.author),
                    !.description = OrUndefined(Some(b.review)),
                    !.tags = Some(b.bookshelves),
                    !.source_id = Some(b.bookId),
                    !.platform_status = ShelfStatus(b.shelf).platform_status,
                    !.status = ShelfStatus(b.shelf).status,
                    !.metadata = Some(<<b.rating, b.dateRead>>)]
    @@ [id |-> <<"goodreads", b.bookId>>, type |-> "book", title |-> b.title,
        source |-> "goodreads"]

\* if (!title) continue
BookResources(lines) ==
    LET kept == SelectSeq(lines, LAMBDA b : b.title # "")
    IN  [i \in 1..Len(kept) |-> BookResource(kept[i])]

BooksStart ==
    /\ pc["books"] = "start"
    /\ pc' = [pc EXCEPT !["books"] = "exists"]
    /\ UNCHANGED <<storeVars, directVars, netVars, mainVars, upsertLog, result, rw, zot,
                   lb, rawg, worldVars>>

BooksExists ==
    /\ pc["books"] = "exists"
    /\ IF files.books = None
       THEN Return("books", 0)
       ELSE pc' = [pc EXCEPT !["books"] = "text"] /\ UNCHANGED result
    /\ UNCHANGED <<storeVars, directVars, netVars, mainVars, upsertLog, rw, zot, lb, rawg,
                   worldVars>>

BooksText ==
    /\ pc["books"] = "text"
    /\ UpsertAndReturn("books", BookResources(files.books[1]))
    /\ UNCHANGED <<dbOpen, directVars, netVars, mainVars, rw, zot, lb, rawg, worldVars>>

\* ---- syncMusic ----------------------------------------------------------

TrackResource(t) ==
    [Omitted EXCEPT !.author = Some("Artist"),
                    !.url = Some("https://open.spotify.com/track"),
                    !.source_id = Some(t),
                    !.metadata = Some(<<"album">>)]
    @@ [id |-> <<"spotify", t>>, type |-> "track", title |-> "A track",
        source |-> "spotify"]

MusicStart ==
    /\ pc["music"] = "start"
    /\ pc' = [pc EXCEPT !["music"] = "exists"]
    /\ UNCHANGED <<storeVars, directVars, netVars, mainVars, upsertLog, result, rw, zot,
                   lb, rawg, worldVars>>

MusicExists ==
    /\ pc["music"] = "exists"
    /\ IF files.music = None
       THEN Return("music", 0)
       ELSE pc' = [pc EXCEPT !["music"] = "json"] /\ UNCHANGED result
    /\ UNCHANGED <<storeVars, directVars, netVars, mainVars, upsertLog, rw, zot, lb, rawg,
                   worldVars>>

MusicJson ==
    /\ pc["music"] = "json"
    /\ UpsertAndReturn("music",
          [i \in 1..Len(files.music[1]) |-> TrackResource(files.music[1][i])])
    /\ UNCHANGED <<dbOpen, directVars, netVars, mainVars, rw, zot, lb, rawg, worldVars>>

\* ---- syncReadwise -------------------------------------------------------

\* READWISE_CATEGORY_MAP[doc.category] || "bookmark"
ReadwiseType(category) ==
    CASE category \in {"article", "highlight", "note", "email", "rss"} -> "article"
      [] category \in {"pdf", "epub", "tweet", "video"} -> category
      [] OTHER -> "bookmark"

ReadwiseResource(doc) ==
    [Omitted EXCEPT !.url = OrUndefined(doc.url),
                    !.author = OrUndefined(doc.author),
                    !.description = OrUndefined(doc.summary),
                    !.tags = Some(SelectSeq(doc.tags, LAMBDA t : t # "")),
                    !.source_id = Some(doc.id),
                    !.image_url = OrUndefined(doc.image_url),
                    !.date_published = OrUndefined(doc.published_date),
                    !.metadata = Some(<<doc.category, doc.created_at>>)]
    @@ [id |-> <<"rw", doc.id>>, type |-> ReadwiseType(doc.category),
        title |-> OrDefault(doc.title, "Untitled"), source |-> "readwise"]

\* The request of one pass of a page loop leaves (fetchWithRetry is called).
SendPage(api, key, ord) ==
    /\ fw' = FwCall(api, key, ord)
    /\ inflight' = inflight + 1
    /\ reqLog' = Append(reqLog, Request(api, "page", key, ord, sinceResp, None, None))

RwStopsAfterFirstPage(cursor) == FALSE

\* if (cursor) await delay(READWISE_DELAY_MS); } while (cursor)
RwContinues(cursor) == Truthy(cursor)

\* The delay between two pages of syncReadwise.
RwPageDelayShort == ZOTERO_DELAY_MS

RwPageDelay == READWISE_DELAY_MS

ZotPageDelay == ZOTERO_DELAY_MS

RwStart ==
    /\ pc["readwise"] = "start"
    /\ IF "READWISE_TOKEN" \notin envKeys
       THEN /\ Return("readwise", 0)
            /\ UNCHANGED <<rw, fw, inflight, reqLog>>
       ELSE /\ rw' = [docs |-> <<>>, cursor |-> None, page |-> 1]
            /\ SendPage("readwise", None, 1)
            /\ pc' = [pc EXCEPT !["readwise"] = "fetch"]
            /\ UNCHANGED result
    /\ UNCHANGED <<storeVars, directVars, sinceResp, faults, mainVars, upsertLog, zot, lb,
                   rawg, worldVars>>

\* fetchWithRetry has returned: the rest of the pass, up to the delay before
\* the next page or, after the last page, through the upsert loop.
RwResponse ==
    /\ pc["readwise"] = "fetch"
    /\ fw.pc = "returned" /\ fw.caller = "readwise"
    /\ fw' = FwIdle
    /\ IF ~Ok(fw.response)
       THEN /\ pc' = [pc EXCEPT !["readwise"] = "threw"]
            /\ UNCHANGED <<rows, upsertLog, result, rw>>
       ELSE LET data == fw.response.body
                docs == rw.docs \o data.results
            IN  /\ rw' = [rw EXCEPT !.docs = docs, !.cursor = data.nextPageCursor]
                /\ IF RwContinues(data.nextPageCursor)
                   THEN /\ pc' = [pc EXCEPT !["readwise"] = "delay"]
                        /\ UNCHANGED <<rows, upsertLog, result>>
                   ELSE UpsertAndReturn("readwise",
                            [i \in 1..Len(docs) |-> ReadwiseResource(docs[i])])
    /\ UNCHANGED <<dbOpen, directVars, sinceResp, inflight, reqLog, faults, mainVars, zot,
                   lb, rawg, worldVars>>

RwDelayElapsed ==
    /\ pc["readwise"] = "delay"
    /\ sinceResp' = Elapse(sinceResp, Some(RwPageDelay))
    /\ fw' = FwCall("readwise", rw.cursor, rw.page + 1)
    /\ inflight' = inflight + 1
    /\ reqLog' = Append(reqLog, Request("readwise", "page", rw.cursor, rw.page + 1,
                                        sinceResp', None, None))
    /\ rw' = [rw EXCEPT !.page = rw.page + 1]
    /\ pc' = [pc EXCEPT !["readwise"] = "fetch"]
    /\ UNCHANGED <<storeVars, directVars, faults, mainVars, upsertLog, result, zot, lb, rawg,
                   worldVars>>

\* ---- syncZotero ---------------------------------------------------------

\* ZOTERO_TYPE_MAP[data.itemType] || "other"
ZoteroType(itemType) ==
    CASE itemType \in {"journalArticle", "conferencePaper", "book", "bookSection",
                       "thesis", "report", "preprint"} -> "paper"
      [] itemType = "webpage" -> "bookmark"
      [] itemType \in {"blogPost", "magazineArticle", "newspaperArticle"} -> "article"
      [] itemType \in {"videoRecording", "film", "podcast"} -> "video"
      [] itemType = "document" -> "pdf"
      [] OTHER -> "other"

\* The name formatZoteroCreators gives one creator ("" for none).
CreatorName(c) ==
    IF c.name # "" THEN c.name
    ELSE IF c.firstName # "" /\ c.lastName # "" THEN c.firstName \o " " \o c.lastName
    ELSE c.lastName

RECURSIVE JoinNames(_)
JoinNames(names) ==
    IF Len(names) = 1 THEN names[1]
    ELSE names[1] \o ", " \o JoinNames(Tail(names))

formatZoteroCreators(creators) ==
    LET authors == SelectSeq(creators, LAMBDA c : c.creatorType = "author")
        names   == SelectSeq([i \in 1..Len(authors) |-> CreatorName(authors[i])],
                             LAMBDA n : n # "")
    IN  IF names = <<>> THEN None ELSE Some(JoinNames(names))

ZoteroResource(item) ==
    [Omitted EXCEPT !.url = Some(OrDefault(Some(item.url), "https://www.zotero.org/item")),
                    !.author = formatZoteroCreators(item.creators),
                    !.description = OrUndefined(Some(item.abstractNote)),
                    !.tags = Some(item.tags),
                    !.source_id = Some(item.key),
                    !.date_published = OrUndefined(Some(item.date)),
                    !.metadata = Some(<<item.dateAdded>>)]
    @@ [id |-> <<"zot", item.key>>, type |-> ZoteroType(item.itemType),
        title |-> OrDefault(Some(item.title), "Untitled"), source |-> "zotero"]

ZotStart ==
    /\ pc["zotero"] = "start"
    /\ IF "ZOTERO_API_KEY" \notin envKeys \/ "ZOTERO_USER_ID" \notin envKeys
       THEN /\ Return("zotero", 0)
            /\ UNCHANGED <<zot, fw, inflight, reqLog>>
       ELSE /\ zot' = [items |-> <<>>, start |-> 0, page |-> 1]
            /\ SendPage("zotero", Some(0), 1)
            /\ pc' = [pc EXCEPT !["zotero"] = "fetch"]
            /\ UNCHANGED result
    /\ UNCHANGED <<storeVars, directVars, sinceResp, faults, mainVars, upsertLog, rw, lb,
                   rawg, worldVars>>

ZotLastPageWhenEmpty(data, start) == Len(data.items) = 0

\* The loop is left when the page is empty or start + limit has reached the
\* Total-Results header (parseInt(header || "0", 10)); a comparison with NaN
\* is false.
ZotLastPage(data, start) ==
    \/ Len(data.items) = 0
    \/ LET header == IF Truthy(data.totalResults) THEN data.totalResults[1] ELSE <<"0">>
           totalResults == ParseInt(header)
       IN  totalResults # None /\ start + ZOTERO_LIMIT >= totalResults[1]

ZotResponse ==
    /\ pc["zotero"] = "fetch"
    /\ fw.pc = "returned" /\ fw.caller = "zotero"
    /\ fw' = FwIdle
    /\ IF ~Ok(fw.response)
       THEN /\ pc' = [pc EXCEPT !["zotero"] = "threw"]
            /\ UNCHANGED <<rows, upsertLog, result, zot>>
       ELSE LET data  == fw.response.body
                items == zot.items \o data.items
            IN  IF ZotLastPage(data, zot.start)
                THEN /\ UpsertAndReturn("zotero",
                            [i \in 1..Len(items) |-> ZoteroResource(ZotItem(items[i]))])
                     /\ zot' = [zot EXCEPT !.items = items]
                ELSE /\ zot' = [zot EXCEPT !.items = items,
                                           !.start = zot.start + ZOTERO_LIMIT]
                     /\ pc' = [pc EXCEPT !["zotero"] = "delay"]
                     /\ UNCHANGED <<rows, upsertLog, result>>
    /\ UNCHANGED <<dbOpen, directVars, sinceResp, inflight, reqLog, faults, mainVars, rw,
                   lb, rawg, worldVars>>

ZotDelayElapsed ==
    /\ pc["zotero"] = "delay"
    /\ sinceResp' = Elapse(sinceResp, Some(ZotPageDelay))
    /\ fw' = FwCall("zotero", Some(zot.start), zot.page + 1)
    /\ inflight' = inflight + 1
    /\ reqLog' = Append(reqLog, Request("zotero", "page", Some(zot.start), zot.page + 1,
                                        sinceResp', None, None))
    /\ zot' = [zot EXCEPT !.page = zot.page + 1]
    /\ pc' = [pc EXCEPT !["zotero"] = "fetch"]
    /\ UNCHANGED <<storeVars, directVars, faults, mainVars, upsertLog, result, rw, lb, rawg,
                   worldVars>>

\* ---- plain fetch (syncLetterboxd, syncRawg, TMDB) ------------------------

\* await fetch(url): the request leaves.
SendPlain(api, key, ord) ==
    /\ inflight' = inflight + 1
    /\ reqLog' = Append(reqLog, Request(api, "plain", key, ord, sinceResp, None, None))

\* The response of a plain fetch arrives.
PlainArrives(status) ==
    /\ sinceResp' = Some(0)
    /\ faults' = IF status = 500 THEN faults - 1 ELSE faults

\* The statuses a server may answer with, given the status of its answer
\* when nothing is wrong.
PlainStatuses(normal) == {normal} \cup (IF faults > 0 THEN {500} ELSE {})

\* ---- syncLetterboxd -----------------------------------------------------

\* An entry of a Letterboxd feed (parseLetterboxdRss), as a Resource; kind is
\* "lb-diary" or "lb-wl".  The id is cut from the film's title and year, the
\* source_id is the link of the entry.
LetterboxdResource(kind, item) ==
    [Omitted EXCEPT !.url = Some("https://letterboxd.com/film"),
                    !.source_id = Some(item.link),
                    !.platform_status = Some(IF kind = "lb-diary" THEN "watched"
                                                                  ELSE "watchlist"),
                    !.status = IF kind = "lb-diary" THEN Some("done") ELSE None,
                    !.metadata = Some(<<"year">>)]
    @@ [id |-> <<kind, item.film>>, type |-> "movie", title |-> "A film",
        source |-> "letterboxd"]

LbResources(kind, items) == [i \in 1..Len(items) |-> LetterboxdResource(kind, items[i])]

LbStart ==
    /\ pc["letterboxd"] = "start"
    /\ IF "LETTERBOXD_USERNAME" \notin envKeys
       THEN /\ Return("letterboxd", 0)
            /\ UNCHANGED <<lb, inflight, reqLog>>
       ELSE /\ lb' = [count |-> 0]
            /\ SendPlain("letterboxd", None, 1)
            /\ pc' = [pc EXCEPT !["letterboxd"] = "diary"]
            /\ UNCHANGED result
    /\ UNCHANGED <<storeVars, directVars, fw, sinceResp, faults, mainVars, upsertLog, rw,
                   zot, rawg, worldVars>>

\* The diary feed has answered: its entries are upserted when the response is
\* ok, then the watchlist feed is requested.
LbDiary ==
    /\ pc["letterboxd"] = "diary"
    /\ \E status \in PlainStatuses(200) :
         /\ PlainArrives(status)
         /\ LET out == UpsertAll(rows, IF status = 200
                                       THEN LbResources("lb-diary", lbFeeds.diary)
                                       ELSE <<>>)
            IN  /\ rows' = out.rows
                /\ upsertLog' = upsertLog \o out.passed
                /\ IF out.threw
                   THEN /\ pc' = [pc EXCEPT !["letterboxd"] = "threw"]
                        /\ inflight' = inflight - 1
                        /\ UNCHANGED <<lb, reqLog>>
                   ELSE /\ lb' = [count |-> Len(out.passed)]
                        /\ inflight' = inflight
                        /\ reqLog' = Append(reqLog, Request("letterboxd", "plain", None, 2,
                                                            sinceResp', None, None))
                        /\ pc' = [pc EXCEPT !["letterboxd"] = "watchlist"]
    /\ UNCHANGED <<dbOpen, directVars, fw, mainVars, result, rw, zot, rawg, worldVars>>

LbWatchlist ==
    /\ pc["letterboxd"] = "watchlist"
    /\ \E status \in PlainStatuses(200) :
         /\ PlainArrives(status)
         /\ inflight' = inflight - 1
         /\ LET out == UpsertAll(rows, IF status = 200
                                       THEN LbResources("lb-wl", lbFeeds.watchlist)
                                       ELSE <<>>)
            IN  /\ rows' = out.rows
                /\ upsertLog' = upsertLog \o out.passed
                /\ IF out.threw
                   THEN pc' = [pc EXCEPT !["letterboxd"] = "threw"] /\ UNCHANGED result
                   ELSE Return("letterboxd", lb.count + Len(out.passed))
    /\ UNCHANGED <<dbOpen, directVars, fw, reqLog, mainVars, rw, zot, lb, rawg, worldVars>>

\* ---- syncRawg -----------------------------------------------------------

RawgResource(game) ==
    [Omitted EXCEPT !.url = Some("https://rawg.io/games"),
                    !.source_id = Some(game),
                    !.metadata = Some(<<>>)]
    @@ [id |-> <<"rawg", game>>, type |-> "game", title |-> "A game", source |-> "rawg"]

RawgStart ==
    /\ pc["rawg"] = "start"
    /\ IF "RAWG_API_KEY" \notin envKeys \/ "RAWG_USERNAME" \notin envKeys
       THEN /\ Return("rawg", 0)
            /\ UNCHANGED <<rawg, inflight, reqLog>>
       ELSE /\ rawg' = [games |-> <<>>, nextUrl |-> Some(1)]
            /\ SendPlain("rawg", Some(1), 1)
            /\ pc' = [pc EXCEPT !["rawg"] = "fetch"]
            /\ UNCHANGED result
    /\ UNCHANGED <<storeVars, directVars, fw, sinceResp, faults, mainVars, upsertLog, rw,
                   zot, lb, worldVars>>

RawgResponse ==
    /\ pc["rawg"] = "fetch"
    /\ \E status \in PlainStatuses(200) :
         /\ PlainArrives(status)
         /\ inflight' = inflight - 1
         /\ IF status # 200
            THEN /\ pc' = [pc EXCEPT !["rawg"] = "threw"]
                 /\ UNCHANGED <<rows, upsertLog, result, rawg>>
            ELSE LET data  == RawgPageBody(rawg.nextUrl[1])
                     games == rawg.games \o data.results
                 IN  /\ rawg' = [games |-> games, nextUrl |-> data.next]
                     /\ IF data.next # None
                        THEN /\ pc' = [pc EXCEPT !["rawg"] = "delay"]
                             /\ UNCHANGED <<rows, upsertLog, result>>
                        ELSE UpsertAndReturn("rawg",
                                 [i \in 1..Len(games) |-> RawgResource(games[i])])
    /\ UNCHANGED <<dbOpen, directVars, fw, reqLog, mainVars, rw, zot, lb, worldVars>>

RawgDelayElapsed ==
    /\ pc["rawg"] = "delay"
    /\ sinceResp' = Elapse(sinceResp, Some(RAWG_DELAY_MS))
    /\ inflight' = inflight + 1
    /\ reqLog' = Append(reqLog, Request("rawg", "plain", rawg.nextUrl, rawg.nextUrl[1],
                                        sinceResp', None, None))
    /\ pc' = [pc EXCEPT !["rawg"] = "fetch"]
    /\ UNCHANGED <<storeVars, directVars, fw, faults, mainVars, upsertLog, result, rw, zot,
                   lb, rawg, worldVars>>

(***************************************************************************)
(* scripts/sync.ts: the TMDB commands and main                             *)
(***************************************************************************)

\* tmdbMovieToResource(movie, status): a manually queued movie.
tmdbMovieToResource(movie, status) ==
    [Omitted EXCEPT !.url = Some("https://www.themoviedb.org/movie"),
                    !.description = Some("An overview"),
                    !.source_id = Some(movie),
                    !.status = Some(status),
                    !.status_manual = Some(1),
                    !.date_published = Some("1999"),
                    !.metadata = Some(<<"vote_average">>)]
    @@ [id |-> <<"tmdb", movie>>, type |-> "movie", title |-> "A movie", source |-> "tmdb"]

\* const command = positionals[0] || "all"
Command(args) == IF args.command = "" THEN "all" ELSE args.command

\* The sync functions main awaits, one after the other, for a command (the
\* cases of the switch).
SyncPlanRawgFirst(command) ==
    CASE command = "local" -> <<"books", "music">>
      [] command = "api"   -> <<"readwise", "zotero", "letterboxd", "rawg">>
      [] command = "all"   -> <<"books", "music", "readwise", "zotero", "rawg", "letterboxd">>
      [] command \in Syncs -> <<command>>
      [] OTHER             -> <<>>

SyncPlanLocalWithApi(command) ==
    CASE command = "local" -> <<"books", "music", "letterboxd">>
      [] command = "api"   -> <<"readwise", "zotero", "letterboxd", "rawg">>
      [] command = "all"   -> <<"books", "music", "readwise", "zotero", "letterboxd", "rawg">>
      [] command \in Syncs -> <<command>>
      [] OTHER             -> <<>>

SyncPlan(command) ==
    CASE command = "local" -> <<"books", "music">>
      [] command = "api"   -> <<"readwise", "zotero", "letterboxd", "rawg">>
      [] command = "all"   -> <<"books", "music", "readwise", "zotero", "letterboxd", "rawg">>
      [] command \in Syncs -> <<command>>
      [] OTHER             -> <<>>

SyncCommands == Syncs \cup {"local", "api", "all"}

\* const status = positionals[3] === "now" ? "now" : "next"
TmdbStatus(fourth) == IF fourth = "now" THEN "now" ELSE "next"

RwIdle == [docs |-> <<>>, cursor |-> None, page |-> 0]

ZotIdle == [items |-> <<>>, start |-> 0, page |-> 0]

LbIdle == [count |-> 0]

RawgIdle == [games |-> <<>>, nextUrl |-> None]

IdleSyncs ==
    /\ pc = [f \in Syncs |-> "idle"]
    /\ result = [f \in Syncs |-> 0]
    /\ rw = RwIdle /\ zot = ZotIdle /\ lb = LbIdle /\ rawg = RawgIdle

\* The branch main takes for the options given: the first of its tests that
\* holds, in the order of the code.  values.export is a string and is tested
\* for truthiness: the empty text given with --export fails the test.
OptionBranch(args) ==
    CASE "help" \in args.options                       -> "help"
      [] "stats" \in args.options                      -> "stats"
      [] args.export # None /\ args.export[1] # ""     -> "export"
      [] "export-library" \in args.options             -> "export-library"
      [] "export-now" \in args.options                 -> "export-now"
      [] OTHER                                         -> "command"

\* The user runs bun scripts/sync.ts with positionals args and none of the
\* options main returns on: main up to the switch (getDb opens the database
\* of the earlier runs).
ProcessStart ==
    /\ mainPc \in {"idle", "closed", "crashed"}
    /\ runs < runLimit
    /\ \E args \in cmds : OptionBranch(args) = "command" /\ argv' = args
    /\ runs' = runs + 1
    /\ mainPc' = "switch"
    /\ dbOpen' = TRUE
    /\ rows0' = rows
    /\ step' = 0 /\ total' = 0 /\ events' = <<>> /\ upsertLog' = <<>>
    /\ reqLog' = <<>> /\ sinceResp' = None /\ inflight' = 0 /\ fw' = FwIdle
    /\ pc' = [f \in Syncs |-> "idle"] /\ result' = [f \in Syncs |-> 0]
    /\ rw' = RwIdle /\ zot' = ZotIdle /\ lb' = LbIdle /\ rawg' = RawgIdle
    /\ UNCHANGED <<rows, directVars, faults, worldVars>>

\* switch (command): a sync command starts its plan; tmdb add <id> calls
\* tmdbAddById, whose tmdbGetMovie sends the request when TMDB_API_KEY is set;
\* tmdb search sends the search; anything else prints and closes.
MainSwitch ==
    /\ mainPc = "switch"
    /\ LET command == Command(argv)
           id      == ParseInt(argv.idArg)
       IN  IF command \in SyncCommands
           THEN /\ mainPc' = "sync" /\ step' = 1
                /\ UNCHANGED <<dbOpen, inflight, reqLog>>
           ELSE IF command = "tmdb" /\ argv.sub = "add" /\ id # None
                                    /\ "TMDB_API_KEY" \in envKeys
           THEN /\ mainPc' = "tmdbGet"
                /\ SendPlain("tmdb", id, 1)
                /\ UNCHANGED <<dbOpen, step>>
           ELSE IF command = "tmdb" /\ argv.sub = "search" /\ argv.idArg # <<>>
                                    /\ "TMDB_API_KEY" \in envKeys
           THEN /\ mainPc' = "tmdbSearch"
                /\ SendPlain("tmdb", None, 1)
                /\ UNCHANGED <<dbOpen, step>>
           ELSE /\ mainPc' = "closed" /\ dbOpen' = FALSE
                /\ UNCHANGED <<step, inflight, reqLog>>
    /\ UNCHANGED <<rows, directVars, fw, sinceResp, faults, argv, total, events, runs, rows0,
                   upsertLog, syncVars, worldVars>>

\* main calls the next sync function of its plan and awaits it.
MainCallNext ==
    /\ mainPc = "sync"
    /\ step <= Len(SyncPlan(Command(argv)))
    /\ LET f == SyncPlan(Command(argv))[step]
       IN  /\ pc' = [pc EXCEPT ![f] = "start"]
           /\ events' = Append(events, <<"start", f, 0>>)
    /\ mainPc' = "await"
    /\ UNCHANGED <<storeVars, directVars, netVars, argv, step, total, runs, rows0, upsertLog,
                   result, rw, zot, lb, rawg, worldVars>>

\* The awaited sync function has returned: total += count, and on to the
\* next one or to the report.
MainResume ==
    /\ mainPc = "await"
    /\ LET f == SyncPlan(Command(argv))[step]
       IN  /\ pc[f] = "returned"
           /\ total' = total + result[f]
           /\ events' = Append(events, <<"return", f, result[f]>>)
           /\ pc' = [pc EXCEPT ![f] = "done"]
    /\ step' = step + 1
    /\ mainPc' = IF step + 1 > Len(SyncPlan(Command(argv))) THEN "report" ELSE "sync"
    /\ UNCHANGED <<storeVars, directVars, netVars, argv, runs, rows0, upsertLog, result, rw,
                   zot, lb, rawg, worldVars>>

\* The awaited sync function has thrown: main() rejects and the process ends.
MainCrash ==
    /\ mainPc = "await"
    /\ pc[SyncPlan(Command(argv))[step]] = "threw"
    /\ mainPc' = "crashed"
    /\ dbOpen' = FALSE
    /\ UNCHANGED <<rows, directVars, netVars, argv, step, total, events, runs, rows0,
                   upsertLog, syncVars, worldVars>>

\* console.log(Total: ...); db.close()
MainReport ==
    /\ mainPc = "report"
    /\ mainPc' = "closed"
    /\ dbOpen' = FALSE
    /\ UNCHANGED <<rows, directVars, netVars, argv, step, total, events, runs, rows0,
                   upsertLog, syncVars, worldVars>>

\* tmdbGetMovie's fetch has answered; tmdbAddById upserts the movie found.
TmdbGetResponse ==
    /\ mainPc = "tmdbGet"
    /\ LET id == ParseInt(argv.idArg)[1]
       IN  \E status \in PlainStatuses(IF id \in tmdbMovies THEN 200 ELSE 404) :
             /\ PlainArrives(status)
             /\ inflight' = inflight - 1
             /\ IF status = 200
                THEN LET out == upsertResource(rows,
                                    tmdbMovieToResource(id, TmdbStatus(argv.fourth)))
                     IN  /\ rows' = out.rows
                         /\ upsertLog' = Append(upsertLog, <<"tmdb", id>>)
                         /\ mainPc' = IF out.threw THEN "crashed" ELSE "closed"
                ELSE /\ mainPc' = IF status = 404 THEN "closed" ELSE "crashed"
                     /\ UNCHANGED <<rows, upsertLog>>
    /\ dbOpen' = FALSE
    /\ UNCHANGED <<directVars, fw, reqLog, argv, step, total, events, runs, rows0, syncVars,
                   worldVars>>

\* tmdbSearch's fetch has answered; tmdbSearchAndAdd prints the results.
TmdbSearchResponse ==
    /\ mainPc = "tmdbSearch"
    /\ \E status \in PlainStatuses(200) :
         /\ PlainArrives(status)
         /\ inflight' = inflight - 1
         /\ mainPc' = IF status = 200 THEN "closed" ELSE "crashed"
    /\ dbOpen' = FALSE
    /\ UNCHANGED <<rows, directVars, fw, reqLog, argv, step, total, events, runs, rows0,
                   upsertLog, syncVars, worldVars>>

(***************************************************************************)
(* Direct calls of upsertResource with resources of type Resource          *)
(***************************************************************************)
MaxDbIds == 2

MaxDbCalls == 3

DbIds == {<<"x", i>> : i \in 1..MaxDbIds}

\* The fields every upsert overwrites, in three variants: all given, all
\* given with other values (tags the empty array), optional ones omitted.
DbContent(v) ==
    CASE v = 1 -> [type |-> "article", title |-> "T1", url |-> Some("u1"),
                   author |-> Some("a1"), description |-> Some("d1"),
                   tags |-> Some(<<"t1">>), metadata |-> Some(<<"m1">>),
                   platform_status |-> Some("p1")]
      [] v = 2 -> [type |-> "paper", title |-> "T2", url |-> Some("u2"),
                   author |-> Some("a2"), description |-> Some("d2"),
                   tags |-> Some(<<>>), metadata |-> Some(<<"m2">>),
                   platform_status |-> Some("p2")]
      [] OTHER -> [type |-> "other", title |-> "T3", url |-> None,
                   author |-> None, description |-> None,
                   tags |-> None, metadata |-> None,
                   platform_status |-> None]

DbOrigins ==
    { [source |-> "readwise", source_id |-> Some(1)],
      [source |-> "zotero",   source_id |-> Some(1)],
      [source |-> "readwise", source_id |-> None] }

DbQueue ==
    { [status |-> None, status_manual |-> None, queue_priority |-> None],
      [status |-> Some("now"), status_manual |-> Some(1), queue_priority |-> Some(1)] }

DbExtras ==
    { [image_url |-> None, date_published |-> None, favorited |-> None, rating |-> None],
      [image_url |-> Some("i1"), date_published |-> Some("2020"),
       favorited |-> Some(1), rating |-> Some(5)] }

MkResource(id, c, o, q, e) ==
    [ id |-> id, type |-> c.type, title |-> c.title, url |-> c.url,
      author |-> c.author, description |-> c.description, tags |-> c.tags,
      source |-> o.source, source_id |-> o.source_id, metadata |-> c.metadata,
      status |-> q.status, status_manual |-> q.status_manual,
      platform_status |-> c.platform_status, favorited |-> e.favorited,
      rating |-> e.rating, queue_priority |-> q.queue_priority,
      image_url |-> e.image_url, date_published |-> e.date_published ]

DbResources ==
    { MkResource(id, DbContent(v), o, q, e) :
        id \in DbIds, v \in 1..3, o \in DbOrigins, q \in DbQueue, e \in DbExtras }

NoCall == [made |-> FALSE]

\* options: the boolean options given; export: the text given with --export.
NoArgs ==
    [command |-> "", sub |-> "", idArg |-> <<>>, fourth |-> "", options |-> {},
     export |-> None]

Args(command) == [NoArgs EXCEPT !.command = command]

TmdbArgs(sub, idArg, fourth) ==
    [NoArgs EXCEPT !.command = "tmdb", !.sub = sub, !.idArg = idArg, !.fourth = fourth]

AllKeys ==
    {"READWISE_TOKEN", "ZOTERO_API_KEY", "ZOTERO_USER_ID", "LETTERBOXD_USERNAME",
     "RAWG_API_KEY", "RAWG_USERNAME", "TMDB_API_KEY"}

NoData == [library |-> None, now |-> None]

NoSite == lib = None /\ ex = None /\ publicData = NoData /\ curated = {}

NoDirect == dbCall = NoCall /\ dbCalls = 0 /\ fetchCalls = 0 /\ NoSite

QuietNet == fw = FwIdle /\ sinceResp = None /\ inflight = 0 /\ reqLog = <<>>

IdleProcess ==
    /\ argv = NoArgs /\ mainPc = "idle" /\ step = 0 /\ total = 0 /\ events = <<>>
    /\ runs = 0 /\ rows0 = {} /\ upsertLog = <<>>
    /\ IdleSyncs

NoFiles == [books |-> None, music |-> None]

NoServers ==
    /\ rwServer = <<>> /\ zotSize = 0 /\ lbFeeds = [diary |-> <<>>, watchlist |-> <<>>]
    /\ rawgServer = <<>> /\ tmdbMovies = {}

\* ---- upsertResource called directly --------------------------------------
InitDb ==
    /\ rows = {} /\ dbOpen = TRUE
    /\ NoDirect /\ QuietNet /\ faults = 0 /\ IdleProcess
    /\ cmds = {} /\ runLimit = 0 /\ envKeys = {} /\ files = NoFiles /\ NoServers

\* One call upsertResource(db, resource) on the open database.
UpsertCall ==
    /\ dbCalls < MaxDbCalls
    /\ \E r \in DbResources :
         LET out == upsertResource(rows, r)
         IN  /\ rows' = out.rows
             /\ dbCall' = [made |-> TRUE, resource |-> r, before |-> rows,
                           threw |-> out.threw]
    /\ dbCalls' = dbCalls + 1
    /\ UNCHANGED <<dbOpen, fetchCalls, siteVars, netVars, mainVars, upsertLog, syncVars,
                   worldVars>>

NextDb == UpsertCall

SpecDb == InitDb /\ [][NextDb]_vars

\* ---- fetchWithRetry called directly --------------------------------------
MaxFetchCalls == 2

MaxFaults == 5

InitFetch ==
    /\ rows = {} /\ dbOpen = FALSE
    /\ NoDirect /\ QuietNet /\ faults = MaxFaults /\ IdleProcess
    /\ cmds = {} /\ runLimit = 0 /\ envKeys = {} /\ files = NoFiles /\ NoServers

\* One call fetchWithRetry(url, options), once the call before has returned.
FetchCall ==
    /\ fw.pc \in {"idle", "returned"}
    /\ fetchCalls < MaxFetchCalls
    /\ fetchCalls' = fetchCalls + 1
    /\ SendPage("direct", None, fetchCalls + 1)
    /\ UNCHANGED <<storeVars, dbCall, dbCalls, siteVars, sinceResp, faults, mainVars, upsertLog,
                   syncVars, worldVars>>

NextFetch == FetchCall \/ FwResponse \/ FwDelayElapsed

SpecFetch == InitFetch /\ [][NextFetch]_vars

\* ---- bun sync readwise, bun sync zotero ----------------------------------
MaxPages == 2

MaxDocs == 2

MaxFullPages == 1

MaxApiFaults == 1

\* The Readwise lists of up to maxPages pages of up to maxDocs documents: every
\* page but the last says there is more, the last gives null or "".
RwServers(maxPages, maxDocs) ==
    UNION { { s \in [1..n -> [n : 0..maxDocs, next : {"more", "null", "empty"}]] :
                /\ \A k \in 1..(n - 1) : s[k].next = "more"
                /\ s[n].next # "more" } : n \in 1..maxPages }

\* Library sizes around the multiples of the page size.
ZotSizes(maxFull) ==
    { ZOTERO_LIMIT * a + b : a \in 0..maxFull, b \in {0, 1, ZOTERO_LIMIT - 1} }

EnvChoices == {AllKeys, {}, AllKeys \ {"ZOTERO_USER_ID"}}

InitApi ==
    /\ rows = {} /\ dbOpen = FALSE
    /\ NoDirect /\ QuietNet /\ faults = MaxApiFaults /\ IdleProcess
    /\ envKeys \in EnvChoices /\ files = NoFiles /\ runLimit = 1
    /\ lbFeeds = [diary |-> <<>>, watchlist |-> <<>>] /\ rawgServer = <<>> /\ tmdbMovies = {}
    /\ \/ /\ cmds = {Args("readwise")}
          /\ rwServer \in RwServers(MaxPages, MaxDocs)
          /\ zotSize = 0
       \/ /\ cmds = {Args("zotero")}
          /\ rwServer = <<>>
          /\ zotSize \in ZotSizes(MaxFullPages)

NextApi ==
    \/ ProcessStart \/ MainSwitch \/ MainCallNext \/ MainResume \/ MainCrash \/ MainReport
    \/ FwResponse \/ FwDelayElapsed
    \/ RwStart \/ RwResponse \/ RwDelayElapsed
    \/ ZotStart \/ ZotResponse \/ ZotDelayElapsed

SpecApi == InitApi /\ [][NextApi]_vars

\* ---- bun sync all, bun sync ----------------------------------------------
MaxAllFaults == 1

BookLines ==
    << [bookId |-> 1, title |-> "A book", author |-> "A", review |-> "",
        bookshelves |-> <<"sf">>, shelf |-> "currently-reading",
        rating |-> "5", dateRead |-> ""],
       [bookId |-> 2, title |-> "", author |-> "B", review |-> "ok",
        bookshelves |-> <<>>, shelf |-> "read", rating |-> "0", dateRead |-> "2020"],
       [bookId |-> 3, title |-> "C book", author |-> "C", review |-> "ok",
        bookshelves |-> <<>>, shelf |-> "to-read", rating |-> "0", dateRead |-> ""] >>

SomeFiles == [books |-> Some(BookLines), music |-> Some(<<1, 2>>)]

SmallServers ==
    /\ rwServer = << [n |-> 1, next |-> "more"], [n |-> 1, next |-> "null"] >>
    /\ zotSize = ZOTERO_LIMIT + 1
    /\ lbFeeds = [diary |-> << [film |-> 1, link |-> 1] >>,
                  watchlist |-> << [film |-> 2, link |-> 2] >>]
    /\ rawgServer = <<1, 1>>
    /\ tmdbMovies = {5}

InitAll ==
    /\ rows = {} /\ dbOpen = FALSE
    /\ NoDirect /\ QuietNet /\ faults = MaxAllFaults /\ IdleProcess
    /\ cmds = {Args(""), Args("all"), Args("api")}
    /\ runLimit = 1
    /\ envKeys \in {AllKeys, {}, AllKeys \ {"READWISE_TOKEN", "RAWG_USERNAME"}}
    /\ files \in {NoFiles, SomeFiles}
    /\ SmallServers

NextAll ==
    \/ ProcessStart \/ MainSwitch \/ MainCallNext \/ MainResume \/ MainCrash \/ MainReport
    \/ FwResponse \/ FwDelayElapsed
    \/ BooksStart \/ BooksExists \/ BooksText
    \/ MusicStart \/ MusicExists \/ MusicJson
    \/ RwStart \/ RwResponse \/ RwDelayElapsed
    \/ ZotStart \/ ZotResponse \/ ZotDelayElapsed
    \/ LbStart \/ LbDiary \/ LbWatchlist
    \/ RawgStart \/ RawgResponse \/ RawgDelayElapsed

SpecAll == InitAll /\ [][NextAll]_vars

\* ---- bun sync local, after other runs -------------------------------------
MaxRuns == 2

MaxLocalFaults == 1

InitLocal ==
    /\ rows = {} /\ dbOpen = FALSE
    /\ NoDirect /\ QuietNet /\ faults = MaxLocalFaults /\ IdleProcess
    /\ cmds = {Args("local"), Args("books"), Args("music"), Args("rawg"),
               Args("letterboxd")}
    /\ runLimit = MaxRuns
    /\ envKeys = AllKeys
    /\ files \in {NoFiles, SomeFiles, [SomeFiles EXCEPT !.music = None]}
    /\ SmallServers

NextLocal ==
    \/ ProcessStart \/ MainSwitch \/ MainCallNext \/ MainResume \/ MainCrash \/ MainReport
    \/ BooksStart \/ BooksExists \/ BooksText
    \/ MusicStart \/ MusicExists \/ MusicJson
    \/ LbStart \/ LbDiary \/ LbWatchlist
    \/ RawgStart \/ RawgResponse \/ RawgDelayElapsed

SpecLocal == InitLocal /\ [][NextLocal]_vars

\* ---- bun sync tmdb ... ----------------------------------------------------
MaxTmdbRuns == 3

MaxTmdbFaults == 1

TmdbCmds ==
    { TmdbArgs("add", <<"5">>, ""), TmdbArgs("add", <<"5">>, "now"),
      TmdbArgs("add", <<"5">>, "next"), TmdbArgs("add", <<"6">>, "now"),
      TmdbArgs("add", <<"7">>, "now"), TmdbArgs("add", <<"x">>, ""),
      TmdbArgs("add", <<"5", "x">>, "later"),
      TmdbArgs("search", <<"d", "u", "n", "e">>, ""), TmdbArgs("search", <<>>, ""),
      TmdbArgs("", <<>>, ""), Args("bogus") }

InitTmdb ==
    /\ rows = {} /\ dbOpen = FALSE
    /\ NoDirect /\ QuietNet /\ faults = MaxTmdbFaults /\ IdleProcess
    /\ cmds = TmdbCmds
    /\ runLimit = MaxTmdbRuns
    /\ envKeys \in {AllKeys, {}}
    /\ files = NoFiles
    /\ rwServer = <<>> /\ zotSize = 0 /\ lbFeeds = [diary |-> <<>>, watchlist |-> <<>>]
    /\ rawgServer = <<>> /\ tmdbMovies = {5, 6}

NextTmdb == ProcessStart \/ MainSwitch \/ TmdbGetResponse \/ TmdbSearchResponse

SpecTmdb == InitTmdb /\ [][NextTmdb]_vars

(***************************************************************************)
(* Claims about the store                                                  *)
(***************************************************************************)
StoredIds(table) == {x.id : x \in table}

RowOf(table, id) == CHOOSE x \in table : x.id = id

\* The ten columns of a stored row that an upsert is said to overwrite,
\* compared with the resource of a call.
CarriesFieldsOf(row, r) ==
    /\ row.type = r.type
    /\ row.title = r.title
    /\ row.url = r.url
    /\ row.author = r.author
    /\ row.description = r.description
    /\ row.tags = (IF r.tags = None THEN None ELSE Some([json |-> r.tags[1]]))
    /\ row.source = r.source
    /\ row.source_id = r.source_id
    /\ row.metadata = (IF r.metadata = None THEN None ELSE Some([json |-> r.metadata[1]]))
    /\ row.platform_status = r.platform_status

\* C2: after any sequence of upsertResource calls the table holds at most one
\* row per id; an upsert whose id is already stored updates that row and
\* leaves the number of rows unchanged, and an upsert with an id not yet
\* stored adds exactly one row.
C2_UpsertAddsOrUpdatesOneRow ==
    /\ \A x, y \in rows : x.id = y.id => x = y
    /\ dbCall.made =>
         LET r == dbCall.resource
         IN  IF r.id \in StoredIds(dbCall.before)
             THEN /\ Cardinality(rows) = Cardinality(dbCall.before)
                  /\ r.id \in StoredIds(rows)
                  /\ RowOf(rows, r.id).title = r.title
             ELSE /\ Cardinality(rows) = Cardinality(dbCall.before) + 1
                  /\ r.id \in StoredIds(rows)

\* What the code does keep of C2: one row per id, and the stated effect on
\* the number of rows for every call that does not throw.
UpsertOneRowPerIdUnlessThrown ==
    /\ \A x, y \in rows : x.id = y.id => x = y
    /\ (dbCall.made /\ ~dbCall.threw) =>
         LET r == dbCall.resource
         IN  /\ r.id \in StoredIds(rows)
             /\ Cardinality(rows) = Cardinality(dbCall.before)
                  + (IF r.id \in StoredIds(dbCall.before) THEN 0 ELSE 1)
    /\ (dbCall.made /\ dbCall.threw) => rows = dbCall.before

\* C3: last write wins: when a call carries an id an earlier call stored, the
\* stored type, title, url, author, description, tags, source, source_id,
\* metadata and platform_status are afterwards those of the later call (NULL
\* where it omits the field).
C3_LastWriteWins ==
    (dbCall.made /\ dbCall.resource.id \in StoredIds(dbCall.before)) =>
        /\ dbCall.resource.id \in StoredIds(rows)
        /\ CarriesFieldsOf(RowOf(rows, dbCall.resource.id), dbCall.resource)

\* What the code does keep of C3: the later call wins whenever it returns.
LastWriteWinsUnlessThrown ==
    (dbCall.made /\ ~dbCall.threw /\ dbCall.resource.id \in StoredIds(dbCall.before)) =>
        CarriesFieldsOf(RowOf(rows, dbCall.resource.id), dbCall.resource)

(***************************************************************************)
(* Claims about fetchWithRetry                                             *)
(***************************************************************************)

\* The requests the current call of fetchWithRetry has sent, in the log.
RequestsOfCall == {i \in DOMAIN reqLog : reqLog[i].ord = fw.ord}

\* C1: one call of fetchWithRetry sends at most MAX_RETRIES + 1 = 4 requests;
\* every request after the first follows a 429 answer to the one before it;
\* the call returns the first answer that is not a 429, or the answer to the
\* fourth request whatever it is.
C1_AtMostFourRequests ==
    fw.pc # "idle" =>
        /\ Cardinality(RequestsOfCall) = fw.reqs
        /\ fw.reqs <= MAX_RETRIES + 1
        /\ Len(fw.resps) \in {fw.reqs - 1, fw.reqs}
        /\ \A i \in 1..(fw.reqs - 1) : fw.resps[i] = 429
        /\ fw.pc = "returned" =>
              /\ Len(fw.resps) = fw.reqs
              /\ fw.response.status = fw.resps[fw.reqs]
              /\ fw.response.status # 429 \/ fw.reqs = MAX_RETRIES + 1

\* A call that was answered 429 four times and returned the fourth answer.
C1_FourthAnswerReturned ==
    /\ fw.pc = "returned"
    /\ fw.reqs = MAX_RETRIES + 1
    /\ fw.response.status = 429

\* The wait a 429 answer asks for, in ms: its Retry-After, or the default.
WaitAskedMs(hdr) == IF hdr = None THEN DEFAULT_WAIT_MS ELSE hdr[1].secs * 1000

\* C6: before each retry fetchWithRetry waits Retry-After x 1000 ms when the
\* 429 answer carries the header and 60000 ms when it does not; no retry
\* leaves before that wait has elapsed.
C6_RetryWaitsAsAsked ==
    \A i \in DOMAIN reqLog :
        reqLog[i].kind = "retry" =>
            /\ reqLog[i].gap # None
            /\ reqLog[i].gap[1] >= WaitAskedMs(reqLog[i].hdr)

\* The same for the answers without the header and those whose Retry-After is
\* a number of seconds: these the retry does wait for.
RetryWaitsForDeltaSeconds ==
    \A i \in DOMAIN reqLog :
        (reqLog[i].kind = "retry"
           /\ (reqLog[i].hdr = None \/ ParseInt(reqLog[i].hdr[1].text) # None)) =>
            /\ reqLog[i].waitMs = Some(WaitAskedMs(reqLog[i].hdr))
            /\ reqLog[i].gap # None
            /\ reqLog[i].gap[1] >= WaitAskedMs(reqLog[i].hdr)

(***************************************************************************)
(* Claims about the page loops of syncReadwise and syncZotero              *)
(***************************************************************************)
Returned(f) == pc[f] \in {"returned", "done"}

PageRequests(api) == SelectSeq(reqLog, LAMBDA q : q.api = api /\ q.kind = "page")

\* The ids of the documents of the pages 1..k of the Readwise list, in order.
RECURSIVE RwDocsUpTo(_)
RwDocsUpTo(k) ==
    IF k = 0 THEN <<>>
    ELSE RwDocsUpTo(k - 1)
           \o [j \in 1..rwServer[k].n |-> <<"rw", RwPageBody(k).results[j].id>>]

\* syncReadwise asked for the pages 1..k, each after the first with the cursor
\* the page before gave, where page k is the first whose cursor is one of
\* ends; it passed the documents of these pages to upsertResource once each,
\* in fetch order, and returned their number.
RwFetchedAll(ends) ==
    \E k \in 1..Len(rwServer) :
        /\ rwServer[k].next \in ends
        /\ \A j \in 1..(k - 1) : rwServer[j].next \notin ends
        /\ Len(PageRequests("readwise")) = k
        /\ \A i \in 1..k :
              PageRequests("readwise")[i].key
                 = (IF i = 1 THEN None ELSE RwPageBody(i - 1).nextPageCursor)
        /\ upsertLog = RwDocsUpTo(k)
        /\ result["readwise"] = Len(RwDocsUpTo(k))

\* C4: when syncReadwise returns normally it has requested the first page and
\* then exactly one page per non-null nextPageCursor, in order, stopping at
\* the first null cursor; every document of every page received has been
\* passed to upsertResource exactly once, in fetch order, and the count
\* returned is the number of documents over all pages.
C4_ReadwiseFetchesEveryPage == Returned("readwise") => RwFetchedAll({"null"})

\* C4, as the code has it: the same when READWISE_TOKEN is set, the loop
\* going on for every non-empty cursor and stopping at the first null or
\* empty one.  (Without the token syncReadwise returns 0 and asks for nothing.)
ReadwiseFetchesEveryPageWithToken ==
    (Returned("readwise") /\ "READWISE_TOKEN" \in envKeys) => RwFetchedAll({"null", "empty"})

\* syncReadwise returned after two pages or more, and documents were upserted.
ReadwiseReturnedAfterSeveralPages ==
    /\ Returned("readwise")
    /\ "READWISE_TOKEN" \in envKeys
    /\ Len(PageRequests("readwise")) >= 2
    /\ Len(upsertLog) >= 2
    /\ result["readwise"] = Len(upsertLog)

\* The pages of 100 that cover a library of n items (one page for none).
ZotPagesFor(n) == IF n = 0 THEN 1 ELSE (n + ZOTERO_LIMIT - 1) \div ZOTERO_LIMIT

\* syncZotero asked for pages of 100 at start = 0, 100, 200, ... until the
\* library was covered, passed each of its items to upsertResource once, and
\* returned their number.
ZotFetchedAll ==
    /\ Len(PageRequests("zotero")) = ZotPagesFor(zotSize)
    /\ \A i \in 1..Len(PageRequests("zotero")) :
          PageRequests("zotero")[i].key = Some(ZOTERO_LIMIT * (i - 1))
    /\ upsertLog = [i \in 1..zotSize |-> <<"zot", i>>]
    /\ result["zotero"] = zotSize

\* C5: when syncZotero returns normally, every top-level item of the library
\* has been fetched and upserted: pages of 100 are requested at start = 0,
\* 100, 200, ... until all items are covered, each item is passed to
\* upsertResource exactly once, and the count returned is the library's size.
C5_ZoteroFetchesWholeLibrary == Returned("zotero") => ZotFetchedAll

\* C5, as the code has it: the same when ZOTERO_API_KEY and ZOTERO_USER_ID
\* are both set.  (Without either syncZotero returns 0 and asks for nothing.)
ZoteroFetchesWholeLibraryWithKeys ==
    (Returned("zotero") /\ {"ZOTERO_API_KEY", "ZOTERO_USER_ID"} \subseteq envKeys)
        => ZotFetchedAll

\* syncZotero returned a library of more than one page.
ZoteroReturnedSeveralPages ==
    /\ Returned("zotero")
    /\ zotSize > ZOTERO_LIMIT
    /\ result["zotero"] = zotSize
    /\ Cardinality(rows) = zotSize

\* The delay a page request after the first must leave since the response
\* before it.
PageDelayOf(api) == IF api = "readwise" THEN READWISE_DELAY_MS ELSE ZOTERO_DELAY_MS

\* C7: the page requests of one API sync never overlap and are spaced by the
\* fixed delay: every page request after the first leaves only after the
\* previous response was received and at least 3500 ms (syncReadwise) or
\* 1100 ms (syncZotero) after it; no delay is taken after the last page.
C7_PagesSpacedByDelay ==
    /\ inflight \in {0, 1}
    /\ \A i \in DOMAIN reqLog :
          (reqLog[i].kind = "page" /\ reqLog[i].ord > 1) =>
              /\ reqLog[i].gap # None
              /\ reqLog[i].gap[1] >= PageDelayOf(reqLog[i].api)
    /\ \A f \in {"readwise", "zotero"} :
          (Returned(f) /\ PageRequests(f) # <<>>) => sinceResp = Some(0)

\* syncReadwise returned after a second page that left 3500 ms after the
\* response to the first.
SecondPageAfterDelay ==
    /\ Returned("readwise")
    /\ \E i \in DOMAIN reqLog :
          /\ reqLog[i].api = "readwise" /\ reqLog[i].kind = "page" /\ reqLog[i].ord = 2
          /\ reqLog[i].gap = Some(READWISE_DELAY_MS)

(***************************************************************************)
(* Claims about main                                                       *)
(***************************************************************************)
AllOrder == <<"books", "music", "readwise", "zotero", "letterboxd", "rawg">>

\* A sync function has been called and has neither returned nor thrown.
InProgress(f) == pc[f] \notin {"idle", "returned", "threw", "done"}

\* C8: with the command all (or no command) the six sync functions run one
\* after another in the order books, music, readwise, zotero, letterboxd,
\* rawg: each starts only after the one before has returned, no two are in
\* progress at the same time, and the reported total is the sum of the six
\* counts returned.
C8_AllRunsSixInOrder ==
    (Command(argv) = "all" /\ mainPc # "idle") =>
        /\ Len(events) <= 2 * Len(AllOrder)
        /\ \A i \in DOMAIN events :
              /\ events[i][2] = AllOrder[(i + 1) \div 2]
              /\ events[i][1] = (IF i % 2 = 1 THEN "start" ELSE "return")
              /\ i % 2 = 0 => events[i][3] = result[events[i][2]]
        /\ Cardinality({f \in Syncs : InProgress(f)}) <= 1
        /\ \A i \in DOMAIN AllOrder :
              pc[AllOrder[i]] # "idle" =>
                  \A j \in 1..(i - 1) : pc[AllOrder[j]] = "done"
        /\ mainPc \in {"report", "closed"} =>
              /\ Len(events) = 2 * Len(AllOrder)
              /\ total = result["books"] + result["music"] + result["readwise"]
                           + result["zotero"] + result["letterboxd"] + result["rawg"]

\* bun sync (no command) has run the six, each with something to sync, and
\* reported.
AllSixReturned ==
    /\ argv.command = ""
    /\ mainPc = "closed"
    /\ Len(events) = 2 * Len(AllOrder)
    /\ \A f \in Syncs : result[f] > 0
    /\ total > ZOTERO_LIMIT

\* tmdb add <id> [fourth] has completed for a movie TMDB returned.
TmdbAddCompleted ==
    /\ Command(argv) = "tmdb" /\ argv.sub = "add"
    /\ mainPc = "closed"
    /\ upsertLog # <<>>

\* C9: after tmdb add <id> now completes for a movie that TMDB returns, the
\* stored resource tmdb-<id> has status 'now'; after tmdb add <id> (or with
\* any other fourth argument) it has status 'next'; whatever the store held
\* before, also a resource with that id.
C9_TmdbAddStoresStatus ==
    TmdbAddCompleted =>
        \E x \in rows :
            /\ x.id = upsertLog[1]
            /\ x.status = Some(IF argv.fourth = "now" THEN "now" ELSE "next")

\* What the code does keep of C9: the status asked for is stored when the id
\* was not stored before, and the status stored before is kept when it was.
TmdbAddKeepsStoredStatus ==
    TmdbAddCompleted =>
        \E x \in rows :
            /\ x.id = upsertLog[1]
            /\ x.status = (IF \E y \in rows0 : y.id = x.id
                           THEN (CHOOSE y \in rows0 : y.id = x.id).status
                           ELSE Some(IF argv.fourth = "now" THEN "now" ELSE "next"))

LocalSources == {"goodreads", "spotify"}

\* C10: the command local runs only syncBooks and syncMusic: no network
\* request leaves at any point of the run, only rows whose source is
\* goodreads or spotify are inserted or updated, and every other row of the
\* store is unchanged.
C10_LocalTouchesOnlyLocalRows ==
    (Command(argv) = "local" /\ mainPc # "idle") =>
        /\ reqLog = <<>> /\ inflight = 0
        /\ \A f \in Syncs \ {"books", "music"} : pc[f] = "idle"
        /\ \A i \in DOMAIN events : events[i][2] \in {"books", "music"}
        /\ \A x \in rows \ rows0 : x.source \in LocalSources
        /\ \A x \in rows0 \ rows : x.source \in LocalSources
        /\ mainPc = "closed" =>
              events = << <<"start", "books", 0>>, <<"return", "books", result["books"]>>,
                          <<"start", "music", 0>>, <<"return", "music", result["music"]>> >>

\* bun sync local has completed on a store that held rows of the APIs, and
\* has written rows.
LocalRanOverApiRows ==
    /\ Command(argv) = "local"
    /\ mainPc = "closed"
    /\ \E x \in rows0 : x.source \notin LocalSources
    /\ rows # rows0
    /\ total > 0

(***************************************************************************)
(* src/lib/library.ts: the tag hierarchy                                   *)
(***************************************************************************)
Range(seq) == {seq[i] : i \in DOMAIN seq}

\* The variables of scripts/ left alone by the site's code.
backendVars ==
    <<storeVars, dbCall, dbCalls, fetchCalls, netVars, mainVars, upsertLog, syncVars, worldVars>>

\* String.prototype.toLowerCase, letter by letter.
LowerOf(c) ==
    CASE c = "A" -> "a" [] c = "I" -> "i" [] c = "M" -> "m" [] c = "L" -> "l"
      [] c = "Q" -> "q" [] c = "D" -> "d" [] c = "U" -> "u" [] c = "N" -> "n"
      [] c = "E" -> "e" [] OTHER -> c

toLowerCase(s) == [i \in 1..Len(s) |-> LowerOf(s[i])]

WhiteSpace == {" ", "\t"}

RECURSIVE TrimStart(_)
TrimStart(s) == IF s # <<>> /\ Head(s) \in WhiteSpace THEN TrimStart(Tail(s)) ELSE s

RECURSIVE TrimEnd(_)
TrimEnd(s) ==
    IF s # <<>> /\ s[Len(s)] \in WhiteSpace THEN TrimEnd(SubSeq(s, 1, Len(s) - 1)) ELSE s

\* String.prototype.trim
trim(s) == TrimEnd(TrimStart(s))

\* .replace(/\s+/g, "-"): every maximal run of white space becomes one dash.
RECURSIVE DashRuns(_, _)
DashRuns(s, inRun) ==
    IF s = <<>> THEN <<>>
    ELSE IF Head(s) \in WhiteSpace
    THEN (IF inRun THEN <<>> ELSE <<"-">>) \o DashRuns(Tail(s), TRUE)
    ELSE <<Head(s)>> \o DashRuns(Tail(s), FALSE)

\* [a-z0-9-]
SlugChars ==
    {"a", "b", "c", "d", "e", "f", "g", "h", "i", "j", "k", "l", "m", "n", "o", "p", "q",
     "r", "s", "t", "u", "v", "w", "x", "y", "z", "-"} \cup Range(DigitChars)

\* normalizeTag(tag)
normalizeTag(tag) ==
    SelectSeq(DashRuns(trim(toLowerCase(tag)), FALSE), LAMBDA c : c \in SlugChars)

\* A TagHierarchyConfig is kept as its nodes in the order Object.entries walks
\* them, each with the index of its parent (0 for a root), its key and its
\* aliases.  ChildrenOf gives config.children of a node, in that order.
ChildrenOf(config, i) ==
    SelectSeq([j \in 1..Len(config) |-> j], LAMBDA j : config[j].parent = i)

\* buildTagNodeFromConfig, for every node of the tree.
BuildTagNodes(config) ==
    [i \in 1..Len(config) |->
        [key |-> config[i].key,
         aliases |-> [a \in 1..Len(config[i].aliases) |-> normalizeTag(config[i].aliases[a])],
         children |-> ChildrenOf(config, i),
         resourceCount |-> 0,
         resourceIds |-> {}]]

CollectOwnTags(nodes, i) == {normalizeTag(nodes[i].key)} \cup Range(nodes[i].aliases)

RECURSIVE collectAllTagsInNode(_, _)
collectAllTagsInNode(nodes, i) ==
    {normalizeTag(nodes[i].key)} \cup Range(nodes[i].aliases)
        \cup UNION {collectAllTagsInNode(nodes, c) : c \in Range(nodes[i].children)}

\* The order in which addNode of buildTagLookup visits the nodes below (and
\* including) the nodes of a list.
RECURSIVE VisitOrder(_, _)
VisitOrder(nodes, list) ==
    IF list = <<>> THEN <<>>
    ELSE <<Head(list)>> \o VisitOrder(nodes, nodes[Head(list)].children)
            \o VisitOrder(nodes, Tail(list))

\* buildTagLookup: lookup.set(tag, node) in visiting order, a later set of the
\* same tag replacing the earlier one.
buildTagLookup(nodes, roots) ==
    LET order == VisitOrder(nodes, roots)
        tagsOf(k) == {normalizeTag(nodes[order[k]].key)} \cup Range(nodes[order[k]].aliases)
        keys == UNION {tagsOf(k) : k \in DOMAIN order}
        last(t) == CHOOSE k \in DOMAIN order :
                      /\ t \in tagsOf(k)
                      /\ \A m \in DOMAIN order : t \in tagsOf(m) => m <= k
    IN  [t \in keys |-> order[last(t)]]

\* countResourcesInNode, the loop over the resources: the ids added to
\* node.resourceIds.
NodeResourceIds(allTags, resources) ==
    {resources[r].id : r \in {q \in DOMAIN resources :
        \E t \in DOMAIN resources[q].tags : normalizeTag(resources[q].tags[t]) \in allTags}}

NodeMatchCount(ids, allTags, resources) ==
    Cardinality(UNION { {<<q, t>> : t \in {u \in DOMAIN resources[q].tags :
                            normalizeTag(resources[q].tags[u]) \in allTags}}
                        : q \in DOMAIN resources })

\* node.resourceCount = node.resourceIds.size
NodeResourceCount(ids, allTags, resources) == Cardinality(ids)

\* The UTF-16 code units of the characters used in tags.
CodeUnit(c) ==
    CASE c = "\t" -> 9 [] c = " " -> 32 [] c = "!" -> 33 [] c = "-" -> 45
      [] c = "A" -> 65 [] c = "I" -> 73 [] c = "L" -> 76 [] c = "M" -> 77 [] c = "Q" -> 81
      [] c = "a" -> 97 [] c = "i" -> 105 [] c = "l" -> 108 [] c = "m" -> 109
      [] c = "q" -> 113 [] c = "x" -> 120 [] OTHER -> 122

\* a < b as Array.prototype.sort compares strings by default.
RECURSIVE StringLess(_, _)
StringLess(a, b) ==
    IF b = <<>> THEN FALSE
    ELSE IF a = <<>> THEN TRUE
    ELSE IF CodeUnit(Head(a)) # CodeUnit(Head(b)) THEN CodeUnit(Head(a)) < CodeUnit(Head(b))
    ELSE StringLess(Tail(a), Tail(b))

\* Array.from(set).sort()
RECURSIVE SortStrings(_)
SortStrings(set) ==
    IF set = {} THEN <<>>
    ELSE LET least == CHOOSE a \in set : \A b \in set \ {a} : StringLess(a, b)
         IN  <<least>> \o SortStrings(set \ {least})

IsUncategorizedRaw(tag, configured) == tag \notin configured

\* !allConfiguredTags.has(normalizeTag(tag))
IsUncategorized(tag, configured) == normalizeTag(tag) \notin configured

\* buildTagHierarchy(config, resources)
buildTagHierarchy(config, resources) ==
    LET built == BuildTagNodes(config)
        roots == ChildrenOf(config, 0)
        tagToNode == buildTagLookup(built, roots)
        counted == [i \in DOMAIN built |->
                      LET allTags == collectAllTagsInNode(built, i)
                          ids == NodeResourceIds(allTags, resources)
                      IN  [built[i] EXCEPT !.resourceIds = ids,
                               !.resourceCount = NodeResourceCount(ids, allTags, resources)]]
        configured == DOMAIN tagToNode
        uncategorized ==
            UNION { {resources[r].tags[t] : t \in {u \in DOMAIN resources[r].tags :
                        IsUncategorized(resources[r].tags[u], configured)}}
                    : r \in DOMAIN resources }
    IN  [nodes |-> counted,
         roots |-> roots,
         tagToNode |-> tagToNode,
         uncategorizedTags |-> SortStrings(uncategorized),
         uncategorizedCount |->
            Cardinality({r \in DOMAIN resources :
                \E t \in DOMAIN resources[r].tags :
                    IsUncategorized(resources[r].tags[t], configured)})]

\* ---- buildTagHierarchy called on a configured tree and a library ----------
MaxTagNodes == 3

MaxTagResources == 2

\* Keys and aliases as written in a tag-hierarchy.json: mixed case, blanks,
\* an alias of one node that is the key of another.
NodeLabels ==
    { [key |-> <<"a", "i">>, aliases |-> <<>>],
      [key |-> <<"M", "L">>, aliases |-> << <<"A", "I", " ">> >>],
      [key |-> <<"x">>, aliases |-> << <<"m", "l">>, <<"a", "-", "i">> >>] }

\* The tags of a resource: two that normalize alike, tags of several nodes,
\* tags of no node.
TagLists ==
    { << <<"A", "I">>, <<" ", "a", "i", " ">> >>,
      << <<"m", "l">>, <<"a", " ", " ", "i">>, <<"q">> >>,
      << <<"q">>, <<"Q", "!">>, <<"a", "i">> >> }

\* The trees of n nodes: every node after its parent, no two children of one
\* node (or two roots) with the same key.
TagConfigs(n) ==
    LET parents == {p \in [1..n -> 0..(n - 1)] : \A i \in 1..n : p[i] < i}
        trees == { [i \in 1..n |-> [parent |-> p[i], key |-> l[i].key,
                                    aliases |-> l[i].aliases]] :
                      p \in parents, l \in [1..n -> NodeLabels] }
    IN  { c \in trees :
            \A i, j \in 1..n : (i # j /\ c[i].parent = c[j].parent) => c[i].key # c[j].key }

TagLibraries(n) == { [r \in 1..n |-> [id |-> r, tags |-> tl[r]]] : tl \in [1..n -> TagLists] }

InitTags ==
    /\ rows = {} /\ dbOpen = FALSE /\ dbCall = NoCall /\ dbCalls = 0 /\ fetchCalls = 0
    /\ QuietNet /\ faults = 0 /\ IdleProcess
    /\ cmds = {} /\ runLimit = 0 /\ envKeys = {} /\ files = NoFiles /\ NoServers
    /\ \E n \in 1..MaxTagNodes, m \in 0..MaxTagResources :
         \E config \in TagConfigs(n), resources \in TagLibraries(m) :
            lib = [config |-> config, resources |-> resources, hierarchy |-> None]
    /\ ex = None /\ publicData = NoData /\ curated = {}

BuildHierarchyCall ==
    /\ lib # None /\ lib.hierarchy = None
    /\ lib' = [lib EXCEPT !.hierarchy = Some(buildTagHierarchy(lib.config, lib.resources))]
    /\ UNCHANGED <<ex, publicData, curated, backendVars>>

NextTags == BuildHierarchyCall

SpecTags == InitTags /\ [][NextTags]_vars

(***************************************************************************)
(* Claims about the tag hierarchy                                          *)
(***************************************************************************)

\* Node d of the configured tree is node a or lies below it.
RECURSIVE AtOrBelow(_, _, _)
AtOrBelow(config, d, a) ==
    IF d = a THEN TRUE
    ELSE IF config[d].parent = 0 THEN FALSE
    ELSE AtOrBelow(config, config[d].parent, a)

\* The tag, normalized, is the normalized key or a normalized alias of node d.
NamesNode(config, tag, d) ==
    \/ normalizeTag(tag) = normalizeTag(config[d].key)
    \/ \E a \in DOMAIN config[d].aliases :
          normalizeTag(tag) = normalizeTag(config[d].aliases[a])

\* The resource belongs to node i: one of its tags names the node or one of
\* its descendants.
BelongsTo(config, resource, i) ==
    \E t \in DOMAIN resource.tags, d \in DOMAIN config :
        AtOrBelow(config, d, i) /\ NamesNode(config, resource.tags[t], d)

HierarchyBuilt == lib # None /\ lib.hierarchy # None

\* C11: after buildTagHierarchy a resource's id is in a node's resourceIds if
\* and only if at least one of the resource's tags, normalized, equals the
\* normalized key or a normalized alias of that node or of a descendant.
C11_ResourceIdsAreTagMatches ==
    HierarchyBuilt =>
        \A i \in DOMAIN lib.config, r \in DOMAIN lib.resources :
            lib.resources[r].id \in lib.hierarchy[1].nodes[i].resourceIds
                <=> BelongsTo(lib.config, lib.resources[r], i)

\* A built tree with a node that holds a resource only through a descendant,
\* and another node that does not hold that resource.
HeldThroughDescendant ==
    /\ HierarchyBuilt
    /\ \E i, j \in DOMAIN lib.config, r \in DOMAIN lib.resources :
          /\ lib.resources[r].id \in lib.hierarchy[1].nodes[i].resourceIds
          /\ \A t \in DOMAIN lib.resources[r].tags :
                ~NamesNode(lib.config, lib.resources[r].tags[t], i)
          /\ lib.resources[r].id \notin lib.hierarchy[1].nodes[j].resourceIds

\* C12: for every node of the built hierarchy resourceCount is the number of
\* distinct resources that belong to the node, the size of resourceIds: a
\* resource matching several tags of the node or several descendants counts
\* once.
C12_CountIsDistinctResources ==
    HierarchyBuilt =>
        \A i \in DOMAIN lib.config :
            /\ lib.hierarchy[1].nodes[i].resourceCount
                  = Cardinality({r \in DOMAIN lib.resources :
                                    BelongsTo(lib.config, lib.resources[r], i)})
            /\ lib.hierarchy[1].nodes[i].resourceCount
                  = Cardinality(lib.hierarchy[1].nodes[i].resourceIds)

\* A node that counts once a resource two of whose tags name two different
\* nodes at or below it.
CountedOnceForTwoNodes ==
    /\ HierarchyBuilt
    /\ \E i \in DOMAIN lib.config, r \in DOMAIN lib.resources :
          /\ lib.hierarchy[1].nodes[i].resourceCount = 1
          /\ \E t, u \in DOMAIN lib.resources[r].tags, d, e \in DOMAIN lib.config :
                /\ t # u /\ d # e
                /\ AtOrBelow(lib.config, d, i) /\ AtOrBelow(lib.config, e, i)
                /\ NamesNode(lib.config, lib.resources[r].tags[t], d)
                /\ NamesNode(lib.config, lib.resources[r].tags[u], e)

\* The raw tag is carried by a resource and names no node of the tree.
NamesNoNode(config, tag) == \A d \in DOMAIN config : ~NamesNode(config, tag, d)

\* C14: a raw tag is in uncategorizedTags if and only if some resource
\* carries it and its normalized form is no node key and no alias of the
\* configured tree; the list is sorted ascending and holds no tag twice;
\* uncategorizedCount is the number of resources that carry such a tag.
C14_UncategorizedTags ==
    HierarchyBuilt =>
        LET h == lib.hierarchy[1]
            carried == UNION {Range(lib.resources[r].tags) : r \in DOMAIN lib.resources}
        IN  /\ Range(h.uncategorizedTags) = {t \in carried : NamesNoNode(lib.config, t)}
            /\ \A a, b \in DOMAIN h.uncategorizedTags :
                  a < b => StringLess(h.uncategorizedTags[a], h.uncategorizedTags[b])
            /\ h.uncategorizedCount
                  = Cardinality({r \in DOMAIN lib.resources :
                        \E t \in DOMAIN lib.resources[r].tags :
                            NamesNoNode(lib.config, lib.resources[r].tags[t])})

\* Two tags of no node, carried by both resources of the library, beside
\* tags that do name nodes.
TwoUncategorizedTags ==
    /\ HierarchyBuilt
    /\ Len(lib.hierarchy[1].uncategorizedTags) = 2
    /\ lib.hierarchy[1].uncategorizedCount = 2
    /\ \E i \in DOMAIN lib.config : lib.hierarchy[1].nodes[i].resourceCount = 2

(***************************************************************************)
(* lib/books.ts, src/scripts/music.ts, src/lib/library.ts:                 *)
(* the filters and sorts of the explorers                                  *)
(***************************************************************************)

\* String.prototype.includes
includes(s, q) == \E k \in 0..(Len(s) - Len(q)) : SubSeq(s, k + 1, k + Len(q)) = q

\* The characters of the loaded records in the order of their primary
\* collation weight: blank, punctuation, digits, letters.
Alphabet ==
    <<" ", "-", "/", "0", "1", "2", "3", "4", "5", "6", "7", "8", "9",
      "a", "b", "c", "d", "e", "f", "g", "h", "i", "j", "k", "l", "m",
      "n", "o", "p", "q", "r", "s", "t", "u", "v", "w", "x", "y", "z">>

PrimaryWeight(c) == CHOOSE k \in DOMAIN Alphabet : Alphabet[k] = LowerOf(c)

\* String.prototype.localeCompare on these characters: the letters compare
\* without case first, a prefix before its extensions; strings equal so far
\* compare by case at the first difference, lower case first.
localeCompare(a, b) ==
    LET n == IF Len(a) < Len(b) THEN Len(a) ELSE Len(b)
        diff == {i \in 1..n : PrimaryWeight(a[i]) # PrimaryWeight(b[i])}
        cased == {i \in 1..n : a[i] # b[i]}
        first(set) == CHOOSE i \in set : \A j \in set : i <= j
    IN  IF diff # {}
        THEN (IF PrimaryWeight(a[first(diff)]) < PrimaryWeight(b[first(diff)]) THEN -1 ELSE 1)
        ELSE IF Len(a) # Len(b) THEN (IF Len(a) < Len(b) THEN -1 ELSE 1)
        ELSE IF cased # {}
        THEN (IF a[first(cased)] = LowerOf(a[first(cased)]) THEN -1 ELSE 1)
        ELSE 0

\* The compare function sortBooks gives to Array.prototype.sort.
CompareBooks(sortBy, a, b) ==
    CASE sortBy = "title" -> localeCompare(a.title, b.title)
      [] sortBy = "author" -> localeCompare(a.author, b.author)
      [] sortBy = "myRating" -> a.myRating - b.myRating
      [] sortBy = "avgRating" -> a.avgRating - b.avgRating
      [] sortBy = "pages" -> a.pages - b.pages
      [] sortBy = "year" -> a.yearPublished - b.yearPublished
      [] sortBy = "dateRead" ->
            (IF a.dateRead = None /\ b.dateRead = None THEN 0
             ELSE IF a.dateRead = None THEN 1
             ELSE IF b.dateRead = None THEN -1
             ELSE localeCompare(a.dateRead[1], b.dateRead[1]))
      [] sortBy = "dateAdded" -> localeCompare(a.dateAdded, b.dateAdded)
      [] OTHER -> 0

\* The compare function sortTracks gives to Array.prototype.sort.
CompareTracks(sortBy, a, b) ==
    CASE sortBy = "name" -> localeCompare(a.name, b.name)
      [] sortBy = "artist" -> localeCompare(a.artistNames, b.artistNames)
      [] sortBy = "year" -> a.releaseYear - b.releaseYear
      [] sortBy = "duration" -> a.durationSecs - b.durationSecs
      [] OTHER -> 0

\* The compare function sortResources gives to Array.prototype.sort; a date
\* is kept as the number new Date(iso).getTime() makes of it, datePublished
\* as None when the resource has none.
CompareResources(sortBy, a, b) ==
    CASE sortBy = "dateAdded" -> a.dateAdded - b.dateAdded
      [] sortBy = "datePublished" ->
            (IF a.datePublished # None THEN a.datePublished[1] ELSE 0)
                - (IF b.datePublished # None THEN b.datePublished[1] ELSE 0)
      [] sortBy = "title" -> localeCompare(a.title, b.title)
      [] OTHER -> 0

Compare(by, a, b) ==
    CASE by[1] = "books" -> CompareBooks(by[2], a, b)
      [] by[1] = "music" -> CompareTracks(by[2], a, b)
      [] by[1] = "library" -> CompareResources(by[2], a, b)

\* Array.prototype.sort(compare): a stable sort, by merging.
RECURSIVE Merge(_, _, _)
Merge(a, b, by) ==
    IF a = <<>> THEN b
    ELSE IF b = <<>> THEN a
    ELSE IF Compare(by, Head(b), Head(a)) < 0 THEN <<Head(b)>> \o Merge(a, Tail(b), by)
    ELSE <<Head(a)>> \o Merge(Tail(a), b, by)

RECURSIVE ArraySort(_, _)
ArraySort(seq, by) ==
    IF Len(seq) <= 1 THEN seq
    ELSE LET h == Len(seq) \div 2
         IN  Merge(ArraySort(SubSeq(seq, 1, h), by),
                   ArraySort(SubSeq(seq, h + 1, Len(seq)), by), by)

\* Array.prototype.reverse
reverse(seq) == [k \in 1..Len(seq) |-> seq[Len(seq) + 1 - k]]

\* ---- lib/books.ts
searchBooks(books, query) ==
    IF trim(query) = <<>> THEN books
    ELSE LET q == toLowerCase(query)
         IN  SelectSeq(books, LAMBDA b : \/ includes(toLowerCase(b.title), q)
                                         \/ includes(toLowerCase(b.author), q)
                                         \/ includes(toLowerCase(b.additionalAuthors), q))

\* filterByShelf without the test for 'all'.
filterByShelfOnly(books, shelf) == SelectSeq(books, LAMBDA b : b.exclusiveShelf = shelf)

filterByShelf(books, shelf) ==
    IF shelf = "all" THEN books ELSE SelectSeq(books, LAMBDA b : b.exclusiveShelf = shelf)

\* filterByDecades of lib/books.ts and of music.ts
filterByDecades(items, decades) ==
    IF Len(decades) = 0 THEN items ELSE SelectSeq(items, LAMBDA b : b.decade \in Range(decades))

filterByRecommender(books, recommender) ==
    IF recommender = None THEN books
    ELSE SelectSeq(books, LAMBDA b : b.recommender = recommender)

sortBooks(books, sortBy, order) ==
    LET sorted == ArraySort(books, <<"books", sortBy>>)
    IN  IF order = "desc" THEN reverse(sorted) ELSE sorted

\* getDecades of lib/books.ts: the decades of the decade buttons.
getDecades(books) == {books[i].decade : i \in DOMAIN books} \ {"Unknown"}

\* getRecommenders: the names of the recommender buttons.
getRecommenders(books) ==
    {books[i].recommender[1] : i \in {j \in DOMAIN books : books[j].recommender # None}}

\* ---- src/scripts/music.ts
searchTracks(tracks, query) ==
    IF trim(query) = <<>> THEN tracks
    ELSE LET q == toLowerCase(query)
         IN  SelectSeq(tracks, LAMBDA t : \/ includes(toLowerCase(t.name), q)
                                          \/ includes(toLowerCase(t.artistNames), q)
                                          \/ includes(toLowerCase(t.albumName), q))

sortTracks(tracks, sortBy, order) ==
    LET sorted == ArraySort(tracks, <<"music", sortBy>>)
    IN  IF order = "desc" THEN reverse(sorted) ELSE sorted

\* getDecades of music.ts
getTrackDecades(tracks) == {tracks[i].decade : i \in DOMAIN tracks}

\* ---- src/lib/library.ts
searchResources(resources, query) ==
    IF trim(query) = <<>> THEN resources
    ELSE LET q == toLowerCase(query)
         IN  SelectSeq(resources, LAMBDA r :
                \/ includes(toLowerCase(r.title), q)
                \/ (r.author # None /\ includes(toLowerCase(r.author[1]), q))
                \/ (r.description # None /\ includes(toLowerCase(r.description[1]), q))
                \/ \E t \in DOMAIN r.tags : includes(toLowerCase(r.tags[t]), q))

filterBySource(resources, source) ==
    IF source = "all" THEN resources ELSE SelectSeq(resources, LAMBDA r : r.source = source)

filterByType(resources, type) ==
    IF type = "all" THEN resources ELSE SelectSeq(resources, LAMBDA r : r.type = type)

\* filterByTagNode(resources, hierarchy, tagKey), tagKey None for null
filterByTagNode(resources, hierarchy, tagKey) ==
    IF tagKey = None \/ tagKey = Some(<<>>) THEN resources
    ELSE IF normalizeTag(tagKey[1]) \notin DOMAIN hierarchy.tagToNode THEN resources
    ELSE LET node == hierarchy.nodes[hierarchy.tagToNode[normalizeTag(tagKey[1])]]
         IN  SelectSeq(resources, LAMBDA r : r.id \in node.resourceIds)

sortResources(resources, sortBy, order) ==
    LET sorted == ArraySort(resources, <<"library", sortBy>>)
    IN  IF order = "desc" THEN reverse(sorted) ELSE sorted

\* getResourceTypes: the types of the type select.
getResourceTypes(resources) == {resources[i].type : i \in DOMAIN resources}

(***************************************************************************)
(* src/components: BookExplorer, MusicExplorer, LibraryExplorer with its   *)
(* ResourceList.  ex is the state of the component mounted: its props      *)
(* (items, hierarchy) and its useState cells.                              *)
(***************************************************************************)

\* PAGE_SIZE of BookExplorer.tsx and of MusicExplorer.tsx, and the default of
\* the pageSize prop of ResourceList, which LibraryExplorer leaves unset.
PAGE_SIZE(kind) == CASE kind = "books" -> 25 [] kind = "music" -> 50 [] kind = "library" -> 50

\* The component as first rendered.
BookExplorer(books) ==
    [kind |-> "books", items |-> books, search |-> <<>>, shelfFilter |-> "all",
     selectedDecades |-> <<>>, selectedRecommender |-> None,
     sortBy |-> "dateAdded", sortOrder |-> "desc", page |-> 0, selectedIds |-> {}]

MusicExplorer(tracks) ==
    [kind |-> "music", items |-> tracks, search |-> <<>>, selectedDecades |-> <<>>,
     sortBy |-> "name", sortOrder |-> "asc", page |-> 0, selectedIds |-> {}]

LibraryExplorer(resources, hierarchy) ==
    [kind |-> "library", items |-> resources, hierarchy |-> hierarchy, search |-> <<>>,
     selectedTagKey |-> None, sourceFilter |-> "all", typeFilter |-> "all",
     sortBy |-> "dateAdded", sortOrder |-> "desc", page |-> 0]

\* The filters of the useMemo of filteredBooks, before sortBooks.
FilterBooks(e) ==
    filterByRecommender(
        filterByDecades(filterByShelf(searchBooks(e.items, e.search), e.shelfFilter),
                        e.selectedDecades),
        e.selectedRecommender)

filteredBooks(e) == sortBooks(FilterBooks(e), e.sortBy, e.sortOrder)

FilterTracks(e) == filterByDecades(searchTracks(e.items, e.search), e.selectedDecades)

filteredTracks(e) == sortTracks(FilterTracks(e), e.sortBy, e.sortOrder)

FilterResources(e) ==
    LET searched == IF e.search # <<>> THEN searchResources(e.items, e.search) ELSE e.items
        tagged == IF e.selectedTagKey # None /\ e.selectedTagKey # Some(<<>>)
                  THEN filterByTagNode(searched, e.hierarchy, e.selectedTagKey)
                  ELSE searched
        sourced == IF e.sourceFilter # "all" THEN filterBySource(tagged, e.sourceFilter)
                   ELSE tagged
    IN  IF e.typeFilter # "all" THEN filterByType(sourced, e.typeFilter) ELSE sourced

filteredResources(e) == sortResources(FilterResources(e), e.sortBy, e.sortOrder)

Unsorted(e) ==
    CASE e.kind = "books" -> FilterBooks(e)
      [] e.kind = "music" -> FilterTracks(e)
      [] e.kind = "library" -> FilterResources(e)

Filtered(e) ==
    CASE e.kind = "books" -> filteredBooks(e)
      [] e.kind = "music" -> filteredTracks(e)
      [] e.kind = "library" -> filteredResources(e)

\* Array.prototype.slice(start, end) for 0 <= start <= end
slice(seq, start, end) == SubSeq(seq, start + 1, IF end < Len(seq) THEN end ELSE Len(seq))

PaginateFromNextPage(list, page, size) == slice(list, (page + 1) * size, (page + 1) * size + size)

\* const start = page * PAGE_SIZE; return list.slice(start, start + PAGE_SIZE)
Paginate(list, page, size) == slice(list, page * size, page * size + size)

paginated(e) == Paginate(Filtered(e), e.page, PAGE_SIZE(e.kind))

\* Math.ceil(length / PAGE_SIZE)
PagesOf(length, size) == (length + size - 1) \div size

totalPages(e) == PagesOf(Len(Unsorted(e)), PAGE_SIZE(e.kind))

hasActiveFilters(e) ==
    CASE e.kind = "books" -> \/ e.search # <<>> \/ e.shelfFilter # "all"
                             \/ Len(e.selectedDecades) > 0 \/ e.selectedRecommender # None
      [] e.kind = "music" -> e.search # <<>> \/ Len(e.selectedDecades) > 0
      [] e.kind = "library" -> \/ e.search # <<>> \/ e.selectedTagKey # None
                               \/ e.sourceFilter # "all" \/ e.typeFilter # "all"

Mounted(kinds) == ex # None /\ ex.kind \in kinds

\* ---- BookExplorer and MusicExplorer
\* handleSearchChange(value)
HandleSearchChange(queries) ==
    /\ Mounted({"books", "music"})
    /\ \E value \in queries : ex' = [ex EXCEPT !.search = value, !.page = 0]
    /\ UNCHANGED <<lib, publicData, curated, backendVars>>

\* A shelf button: setShelfFilter(shelf); setPage(0)
ShelfClick(shelves) ==
    /\ Mounted({"books"})
    /\ \E shelf \in shelves : ex' = [ex EXCEPT !.shelfFilter = shelf, !.page = 0]
    /\ UNCHANGED <<lib, publicData, curated, backendVars>>

\* toggleDecade(decade), for a decade button
ToggleDecade ==
    /\ Mounted({"books", "music"})
    /\ \E decade \in (IF ex.kind = "books" THEN getDecades(ex.items)
                      ELSE getTrackDecades(ex.items)) :
          ex' = [ex EXCEPT
                   !.selectedDecades =
                       IF decade \in Range(@) THEN SelectSeq(@, LAMBDA d : d # decade)
                       ELSE Append(@, decade),
                   !.page = 0]
    /\ UNCHANGED <<lib, publicData, curated, backendVars>>

\* A recommender button
RecommenderClick ==
    /\ Mounted({"books"})
    /\ \E rec \in getRecommenders(ex.items) :
          ex' = [ex EXCEPT !.selectedRecommender = IF @ = Some(rec) THEN None ELSE Some(rec),
                           !.page = 0]
    /\ UNCHANGED <<lib, publicData, curated, backendVars>>

\* clearFilters, its button rendered when hasActiveFilters
ClearFilters ==
    /\ Mounted({"books", "music"})
    /\ hasActiveFilters(ex)
    /\ ex' = IF ex.kind = "books"
             THEN [ex EXCEPT !.search = <<>>, !.shelfFilter = "all", !.selectedDecades = <<>>,
                             !.selectedRecommender = None, !.page = 0]
             ELSE [ex EXCEPT !.search = <<>>, !.selectedDecades = <<>>, !.page = 0]
    /\ UNCHANGED <<lib, publicData, curated, backendVars>>

\* The order handleSort gives a newly chosen sort key.
FirstOrder(kind, newSortBy) ==
    CASE kind = "books" -> (IF newSortBy \in {"title", "author"} THEN "asc" ELSE "desc")
      [] kind = "music" -> "asc"
      [] kind = "library" -> "desc"

Flip(order) == IF order = "asc" THEN "desc" ELSE "asc"

\* handleSort(newSortBy), for a sort button
HandleSort(keys) ==
    /\ Mounted({"books", "music"})
    /\ \E newSortBy \in keys[ex.kind] :
          ex' = IF ex.sortBy = newSortBy
                THEN [ex EXCEPT !.sortOrder = Flip(@), !.page = 0]
                ELSE [ex EXCEPT !.sortBy = newSortBy,
                                !.sortOrder = FirstOrder(ex.kind, newSortBy), !.page = 0]
    /\ UNCHANGED <<lib, publicData, curated, backendVars>>

Max(a, b) == IF a > b THEN a ELSE b

\* Previous, rendered when totalPages > 1, disabled on page 0
PreviousPage ==
    /\ Mounted({"books", "music", "library"})
    /\ totalPages(ex) > 1 /\ ex.page # 0
    /\ ex' = [ex EXCEPT !.page = Max(0, @ - 1)]
    /\ UNCHANGED <<lib, publicData, curated, backendVars>>

\* Next, rendered when totalPages > 1, disabled on the last page
NextPage ==
    /\ Mounted({"books", "music", "library"})
    /\ totalPages(ex) > 1 /\ ~(ex.page >= totalPages(ex) - 1)
    /\ ex' = [ex EXCEPT !.page = Min(totalPages(ex) - 1, @ + 1)]
    /\ UNCHANGED <<lib, publicData, curated, backendVars>>

\* toggleSelection(id), for the checkbox of one of the first rows displayed
ToggleSelection(maxRow) ==
    /\ Mounted({"books", "music"})
    /\ \E k \in 1..Min(maxRow, Len(paginated(ex))) :
          LET id == paginated(ex)[k].id
          IN  ex' = [ex EXCEPT !.selectedIds = IF id \in @ THEN @ \ {id} ELSE @ \cup {id}]
    /\ UNCHANGED <<lib, publicData, curated, backendVars>>

OnlyVisible(prev, shown) == {shown[k].id : k \in DOMAIN shown}

\* The set selectAllVisible makes of the selection and the rows displayed.
WithVisible(prev, shown) == prev \cup {shown[k].id : k \in DOMAIN shown}

\* selectAllVisible ('Select page')
SelectAllVisible ==
    /\ Mounted({"books", "music"})
    /\ ex' = [ex EXCEPT !.selectedIds = WithVisible(@, paginated(ex))]
    /\ UNCHANGED <<lib, publicData, curated, backendVars>>

\* clearSelection, its button rendered when something is selected
ClearSelection ==
    /\ Mounted({"books", "music"})
    /\ Cardinality(ex.selectedIds) > 0
    /\ ex' = [ex EXCEPT !.selectedIds = {}]
    /\ UNCHANGED <<lib, publicData, curated, backendVars>>

\* ---- LibraryExplorer and ResourceList
\* ResourceList rendered again after a state change of LibraryExplorer: the
\* useMemo on [resources.length] runs when the length differs from that of the
\* render before, and sets page to 0 if page >= totalPages and totalPages > 0.
RenderList(before, after) ==
    IF /\ Len(Unsorted(after)) # Len(Unsorted(before))
       /\ after.page >= totalPages(after)
       /\ totalPages(after) > 0
    THEN [after EXCEPT !.page = 0]
    ELSE after

\* onChange of LibrarySearch: setSearch
SetSearch(queries) ==
    /\ Mounted({"library"})
    /\ \E value \in queries : ex' = RenderList(ex, [ex EXCEPT !.search = value])
    /\ UNCHANGED <<lib, publicData, curated, backendVars>>

\* onSelect of TagTree: setSelectedTagKey, with the key of a node or, by
\* Clear (rendered when a key is selected), with null
SetSelectedTagKey ==
    /\ Mounted({"library"})
    /\ \E key \in {Some(ex.hierarchy.nodes[i].key) : i \in DOMAIN ex.hierarchy.nodes}
                    \cup (IF ex.selectedTagKey # None THEN {None} ELSE {}) :
          ex' = RenderList(ex, [ex EXCEPT !.selectedTagKey = key])
    /\ UNCHANGED <<lib, publicData, curated, backendVars>>

\* A source button: setSourceFilter
SetSourceFilter ==
    /\ Mounted({"library"})
    /\ \E source \in {"all", "readwise", "zotero"} :
          ex' = RenderList(ex, [ex EXCEPT !.sourceFilter = source])
    /\ UNCHANGED <<lib, publicData, curated, backendVars>>

\* The type select: setTypeFilter
SetTypeFilter ==
    /\ Mounted({"library"})
    /\ \E type \in {"all"} \cup getResourceTypes(ex.items) :
          ex' = RenderList(ex, [ex EXCEPT !.typeFilter = type])
    /\ UNCHANGED <<lib, publicData, curated, backendVars>>

\* clearAllFilters, its button rendered when hasActiveFilters
ClearAllFilters ==
    /\ Mounted({"library"})
    /\ hasActiveFilters(ex)
    /\ ex' = RenderList(ex, [ex EXCEPT !.search = <<>>, !.selectedTagKey = None,
                                        !.sourceFilter = "all", !.typeFilter = "all"])
    /\ UNCHANGED <<lib, publicData, curated, backendVars>>

\* handleSort of LibraryExplorer, for the buttons Date and Title
LibraryHandleSort ==
    /\ Mounted({"library"})
    /\ \E newSortBy \in {"dateAdded", "title"} :
          ex' = RenderList(ex,
                    IF ex.sortBy = newSortBy
                    THEN [ex EXCEPT !.sortOrder = Flip(@)]
                    ELSE [ex EXCEPT !.sortBy = newSortBy,
                                    !.sortOrder = FirstOrder("library", newSortBy)])
    /\ UNCHANGED <<lib, publicData, curated, backendVars>>

\* ---- the arrays loaded into the explorers ---------------------------------
TitleWords == << <<"D", "u", "n", "e">>, <<"d", "u", "n", "e">>, <<"E", "m", "m", "a">> >>

PersonNames == << <<"E", "c", "o">>, <<"L", "e", "m">> >>

\* A date as the exports write it, here its year.
DateString(i) == <<"2", "0", "1", DigitChars[(i % 10) + 1]>>

\* `${Math.floor(displayYear / 10) * 10}s` of transformBook, "Unknown" for no year
DecadeLabel(year) ==
    CASE year = 0 -> "Unknown" [] year \div 10 = 199 -> "1990s" [] year \div 10 = 200 -> "2000s"

\* The BookDisplay of line i of a Goodreads export.
BookAt(i) ==
    LET year == <<1994, 2001, 0, 1999, 2008>>[(i % 5) + 1]
    IN  [id |-> i,
         title |-> TitleWords[(i % 3) + 1],
         author |-> PersonNames[(i % 2) + 1],
         additionalAuthors |-> IF i % 5 = 0 THEN <<"D", "u", "n", "n">> ELSE <<>>,
         myRating |-> i % 6,
         avgRating |-> 300 + ((i * 37) % 200),
         pages |-> 100 + ((i * 7) % 11),
         yearPublished |-> year,
         dateRead |-> IF i % 3 = 0 THEN None ELSE Some(DateString(i * 3)),
         dateAdded |-> DateString(i),
         exclusiveShelf |-> <<"read", "read", "to-read", "currently-reading">>[(i % 4) + 1],
         decade |-> DecadeLabel(year),
         recommender |-> IF i % 7 = 0 THEN Some("Naval") ELSE None]

\* The TrackDisplay of track i of a playlist dump.
TrackAt(i) ==
    LET year == IF i % 10 = 0 THEN 2001 ELSE <<1994, 1999>>[(i % 2) + 1]
    IN  [id |-> i,
         name |-> TitleWords[(i % 3) + 1],
         artistNames |-> PersonNames[(i % 2) + 1],
         albumName |-> IF i % 5 = 0 THEN <<"D", "u", "n", "n">> ELSE <<"q">>,
         releaseYear |-> year,
         decade |-> DecadeLabel(year),
         durationSecs |-> 100 + ((i * 13) % 50)]

TagListAt(i) ==
    CASE i % 3 = 0 -> << <<"A", "I">>, <<" ", "a", "i", " ">> >>
      [] i % 3 = 1 -> << <<"m", "l">>, <<"a", " ", " ", "i">>, <<"q">> >>
      [] i % 3 = 2 -> << <<"q">>, <<"Q", "!">>, <<"a", "i">> >>

\* Resource i of library.json.
ResourceAt(i) ==
    [id |-> i,
     source |-> IF i % 10 = 0 THEN "readwise" ELSE "zotero",
     type |-> <<"article", "paper", "pdf">>[(i % 3) + 1],
     title |-> TitleWords[(i % 3) + 1],
     author |-> IF i % 4 = 0 THEN None ELSE Some(PersonNames[(i % 2) + 1]),
     description |-> IF i % 5 = 0 THEN Some(<<"D", "u", "n", "n">>) ELSE None,
     dateAdded |-> (i * 7) % 13,
     datePublished |-> IF i % 4 = 1 THEN None ELSE Some((i * 5) % 11),
     tags |-> TagListAt(i)]

\* Tag trees of a tag-hierarchy.json: one with a child and an alias that is
\* the key of another node, one of a single node.
LibraryConfigs ==
    { << [parent |-> 0, key |-> <<"a", "i">>, aliases |-> <<>>],
         [parent |-> 1, key |-> <<"M", "L">>, aliases |-> << <<"A", "I", " ">> >>],
         [parent |-> 0, key |-> <<"x">>, aliases |-> << <<"m", "l">>, <<"a", "-", "i">> >>] >>,
      << [parent |-> 0, key |-> <<"x">>, aliases |-> << <<"m", "l">>, <<"a", "-", "i">> >>] >> }

\* The lengths of the arrays loaded: a few records, and more than fill the
\* pages of PAGE_SIZE rows even when filtered.
FewRecords == 3

MaxBooks == 54

MaxTracks == 56

MaxResources == 56

\* What the visitor types into the search box.
Queries == {<<>>, <<" ">>, <<"D", "u">>}

BookSortButtons == {"title", "author", "myRating", "year", "pages", "dateAdded"}

TrackSortButtons == {"name", "artist", "year", "duration"}

SortButtons == [books |-> BookSortButtons, music |-> TrackSortButtons]

ShelfButtons == {"all", "read", "currently-reading", "to-read"}

\* ---- an explorer browsed without selecting rows ---------------------------
InitExplorer ==
    /\ rows = {} /\ dbOpen = FALSE /\ dbCall = NoCall /\ dbCalls = 0 /\ fetchCalls = 0
    /\ QuietNet /\ faults = 0 /\ IdleProcess
    /\ cmds = {} /\ runLimit = 0 /\ envKeys = {} /\ files = NoFiles /\ NoServers
    /\ lib = None /\ publicData = NoData /\ curated = {}
    /\ \/ \E n \in {0, FewRecords, MaxBooks} : ex = BookExplorer([i \in 1..n |-> BookAt(i)])
       \/ \E n \in {FewRecords, MaxTracks} : ex = MusicExplorer([i \in 1..n |-> TrackAt(i)])
       \/ \E n \in {FewRecords, MaxResources}, config \in LibraryConfigs :
             LET resources == [i \in 1..n |-> ResourceAt(i)]
             IN  ex = LibraryExplorer(resources, buildTagHierarchy(config, resources))

NextExplorer ==
    \/ HandleSearchChange(Queries)
    \/ ShelfClick(ShelfButtons)
    \/ ToggleDecade
    \/ RecommenderClick
    \/ ClearFilters
    \/ HandleSort(SortButtons)
    \/ PreviousPage
    \/ NextPage
    \/ SetSearch(Queries)
    \/ SetSelectedTagKey
    \/ SetSourceFilter
    \/ SetTypeFilter
    \/ ClearAllFilters
    \/ LibraryHandleSort

SpecExplorer == InitExplorer /\ [][NextExplorer]_vars

(***************************************************************************)
(* Claims about the explorers                                              *)
(***************************************************************************)
IdsOf(seq) == {seq[k].id : k \in DOMAIN seq}

\* The pages p .. last - 1 of a list, one after another.
RECURSIVE PagesFrom(_, _, _, _)
PagesFrom(list, p, last, size) ==
    IF p >= last THEN <<>>
    ELSE Paginate(list, p, size) \o PagesFrom(list, p + 1, last, size)

\* C13: in BookExplorer and MusicExplorer the rows displayed are exactly the
\* rows page * PAGE_SIZE (included) to (page + 1) * PAGE_SIZE (excluded) of the
\* sorted filtered list; and the slices of the pages 0 .. totalPages - 1 are
\* disjoint, hold at most PAGE_SIZE rows each and exactly PAGE_SIZE except the
\* last, and make up the sorted filtered list when put one after another.
C13_DisplayedIsPageSlice ==
    Mounted({"books", "music"}) =>
        LET list == Filtered(ex)
            size == PAGE_SIZE(ex.kind)
            shown == paginated(ex)
            pages == totalPages(ex)
            from == ex.page * size
        IN  /\ Len(shown) = Max(0, Min(size, Len(list) - from))
            /\ \A k \in 1..Len(shown) : shown[k] = list[from + k]
            /\ \A p \in 0..(pages - 1) :
                  /\ Len(Paginate(list, p, size)) <= size
                  /\ p < pages - 1 => Len(Paginate(list, p, size)) = size
                  /\ \A q \in 0..(pages - 1) :
                        p # q => IdsOf(Paginate(list, p, size))
                                    \cap IdsOf(Paginate(list, q, size)) = {}
            /\ PagesFrom(list, 0, pages, size) = list

\* BookExplorer shows the last, shorter page of a list that a filter has
\* shortened and that still fills more than one page.
LastPageOfFilteredBooks ==
    /\ Mounted({"books"})
    /\ ex.page > 0 /\ ex.page = totalPages(ex) - 1
    /\ Len(Unsorted(ex)) < Len(ex.items)
    /\ Len(paginated(ex)) \in 1..(PAGE_SIZE("books") - 1)

(***************************************************************************)
(* scripts/db.ts: the queue and the library of the store                   *)
(***************************************************************************)

\* updateResourceStatus without "status_manual = 1" in its SET list.
updateResourceStatusUnmarked(table, id, status, priority) ==
    { IF x.id = id
      THEN [x EXCEPT !.status = status,
                     !.queue_priority = Coalesce(Nullish(priority, None), @)]
      ELSE x : x \in table }

\* updateResourceStatus(db, id, status, priority): UPDATE resources SET
\* status = ?, status_manual = 1, queue_priority = COALESCE(?, queue_priority)
\* WHERE id = ?, run with (status, priority ?? null, id): the table afterwards.
updateResourceStatus(table, id, status, priority) ==
    { IF x.id = id
      THEN [x EXCEPT !.status = status,
                     !.status_manual = Some(1),
                     !.queue_priority = Coalesce(Nullish(priority, None), @)]
      ELSE x : x \in table }

\* tags: row.tags ? JSON.parse(row.tags) : undefined, and metadata alike.
ParseRow(row) ==
    [row EXCEPT !.tags = IF @ # None THEN Some(@[1].json) ELSE None,
                !.metadata = IF @ # None THEN Some(@[1].json) ELSE None]

ParseRows(seq) == [i \in DOMAIN seq |-> ParseRow(seq[i])]

\* CASE status WHEN 'now' THEN 0 WHEN 'next' THEN 1 END
StatusRank(x) == IF x.status = Some("now") THEN 0 ELSE 1

\* queue_priority ASC with NULL before every number.
PriorityNullsFirst(p, q) == q # None /\ (p = None \/ p[1] < q[1])

\* queue_priority ASC NULLS LAST: p sorts strictly before q.
PriorityBefore(p, q) == p # None /\ (q = None \/ p[1] < q[1])

\* ORDER BY CASE status ... END, queue_priority ASC NULLS LAST: a sorts
\* strictly before b.
QueueBefore(a, b) ==
    \/ StatusRank(a) < StatusRank(b)
    \/ StatusRank(a) = StatusRank(b) /\ PriorityBefore(a.queue_priority, b.queue_priority)

\* The rows of a SELECT in the orders its ORDER BY allows ("queue": the keys
\* of getNowResources; "created": created_at alone).  created_at, the last
\* key of both queries, is the second the row was inserted in and is not
\* kept in the model: rows the other keys leave tied come in either order.
OrderedBy(selected, keys) ==
    LET n == Cardinality(selected)
    IN  { s \in [1..n -> selected] :
            /\ \A i, j \in 1..n : i # j => s[i] # s[j]
            /\ keys = "queue" => \A i, j \in 1..n : i < j => ~QueueBefore(s[j], s[i]) }

LibrarySources == {"readwise", "zotero"}

\* SELECT * FROM resources without the WHERE clause.
getAllResources(table) == { ParseRows(s) : s \in OrderedBy(table, "created") }

\* getLibraryResources(db): SELECT * FROM resources WHERE source IN
\* ('readwise', 'zotero') ORDER BY created_at DESC: the arrays it may return.
getLibraryResources(table) ==
    { ParseRows(s) : s \in OrderedBy({x \in table : x.source \in LibrarySources}, "created") }

QueueStatuses == {Some("now"), Some("next")}

\* getNowResources(db): SELECT * FROM resources WHERE status IN ('now', 'next')
\* ORDER BY CASE status ..., queue_priority ASC NULLS LAST, created_at DESC.
getNowResources(table) ==
    { ParseRows(s) : s \in OrderedBy({x \in table : x.status \in QueueStatuses}, "queue") }

(***************************************************************************)
(* scripts/sync.ts: main with --export-library or --export-now             *)
(***************************************************************************)

\* The entry of library.json for a resource (dateAdded is created_at, which
\* the model does not keep).
LibraryEntry(r) ==
    [ id            |-> r.id,
      source        |-> r.source,
      type          |-> r.type,
      title         |-> r.title,
      url           |-> OrDefault(r.url, ""),
      author        |-> OrUndefined(r.author),
      description   |-> OrUndefined(r.description),
      datePublished |-> OrUndefined(r.date_published),
      tags          |-> IF r.tags # None THEN r.tags[1] ELSE <<>>,
      imageUrl      |-> OrUndefined(r.image_url) ]

\* The entry of now.json for a resource.
NowEntry(r) ==
    [ id             |-> r.id,
      source         |-> r.source,
      type           |-> r.type,
      title          |-> r.title,
      url            |-> OrDefault(r.url, ""),
      author         |-> OrUndefined(r.author),
      description    |-> OrUndefined(r.description),
      imageUrl       |-> OrUndefined(r.image_url),
      status         |-> r.status,
      queuePriority  |-> r.queue_priority,
      platformStatus |-> r.platform_status,
      favorited      |-> r.favorited = Some(1),
      rating         |-> IF r.rating = None \/ r.rating[1] = 0 THEN None ELSE r.rating ]

\* resources.map of the two branches
LibraryEntries(resources) == [i \in DOMAIN resources |-> LibraryEntry(resources[i])]

NowEntries(resources) == [i \in DOMAIN resources |-> NowEntry(resources[i])]

\* The user runs bun scripts/sync.ts with one of the options main returns on:
\* the whole run.  help prints; stats and export read the store and print or
\* write the file named; export-library and export-now write
\* public/data/library.json and public/data/now.json; each but help opens
\* the database and closes it.  The run is a process of its own: it starts
\* with no request sent and no sync function called.
OptionRun ==
    /\ mainPc \in {"idle", "closed", "crashed"}
    /\ runs < runLimit
    /\ \E args \in cmds :
         /\ OptionBranch(args) # "command"
         /\ argv' = args
         /\ dbOpen' = (IF OptionBranch(args) = "help" THEN dbOpen ELSE FALSE)
         /\ LET branch == OptionBranch(args)
            IN  CASE branch = "export-library" ->
                       \E resources \in getLibraryResources(rows) :
                          publicData' = [publicData EXCEPT
                                           !.library = Some(LibraryEntries(resources))]
                  [] branch = "export-now" ->
                       \E resources \in getNowResources(rows) :
                          publicData' = [publicData EXCEPT
                                           !.now = Some(NowEntries(resources))]
                  [] OTHER -> publicData' = publicData
    /\ runs' = runs + 1
    /\ mainPc' = "closed"
    /\ rows0' = rows
    /\ step' = 0 /\ total' = 0 /\ events' = <<>> /\ upsertLog' = <<>>
    /\ reqLog' = <<>> /\ sinceResp' = None /\ inflight' = 0 /\ fw' = FwIdle
    /\ pc' = [f \in Syncs |-> "idle"] /\ result' = [f \in Syncs |-> 0]
    /\ rw' = RwIdle /\ zot' = ZotIdle /\ lb' = LbIdle /\ rawg' = RawgIdle
    /\ UNCHANGED <<rows, dbCall, dbCalls, fetchCalls, lib, ex, curated, faults, worldVars>>

(***************************************************************************)
(* Scenario: a store filled and curated by calls, then exported            *)
(***************************************************************************)
MaxQueueIds == 2

MaxPriority == 2

MaxExportRuns == 1

QueueIds == {<<"x", i>> : i \in 1..MaxQueueIds}

Priorities == {None} \cup {Some(p) : p \in 1..MaxPriority}

\* The sources a resource of this scenario comes from: one of the library's
\* (readwise for odd ids, zotero for even ones) or tmdb.
SourcesOf(id) == {IF id[2] % 2 = 1 THEN "readwise" ELSE "zotero", "tmdb"}

\* The resources the scripts upsert, with and without a place in the queue.
QueueResources ==
    UNION { { MkResource(id, DbContent(1),
                         [source |-> s, source_id |-> Some(id[2])],
                         [status |-> st, status_manual |-> None, queue_priority |-> p],
                         [image_url |-> None, date_published |-> None,
                          favorited |-> None, rating |-> None]) :
                s \in SourcesOf(id), st \in {None, Some("now"), Some("next")},
                p \in Priorities } : id \in QueueIds }

Options(names) == [NoArgs EXCEPT !.options = names]

ExportCmds ==
    { Options({"export-library"}), Options({"export-now"}),
      Options({"export-library", "export-now"}), Options({"stats", "export-library"}) }

InitQueue ==
    /\ rows = {} /\ dbOpen = TRUE
    /\ NoDirect /\ QuietNet /\ faults = 0 /\ IdleProcess
    /\ cmds = ExportCmds /\ runLimit = MaxExportRuns
    /\ envKeys = {} /\ files = NoFiles /\ NoServers

\* A script calls upsertResource(db, r) on its open database (dbCall and
\* dbCalls, the record of the calls of the first scenario, are not kept here).
StoreUpsert ==
    /\ dbOpen
    /\ \E r \in QueueResources : rows' = upsertResource(rows, r).rows
    /\ UNCHANGED <<dbOpen, directVars, netVars, mainVars, upsertLog, syncVars, worldVars>>

\* A script calls updateResourceStatus(db, id, status, priority) on its open
\* database.
UpdateStatusCall ==
    /\ dbOpen
    /\ \E id \in QueueIds, status \in {None, Some("now"), Some("done")},
          priority \in {None, Some(1)} :
         /\ rows' = updateResourceStatus(rows, id, status, priority)
         /\ curated' = {c \in curated : c.id # id} \cup {x \in rows' : x.id = id}
    /\ UNCHANGED <<dbOpen, dbCall, dbCalls, fetchCalls, lib, ex, publicData, netVars,
                   mainVars, upsertLog, syncVars, worldVars>>

NextQueue == StoreUpsert \/ UpdateStatusCall \/ OptionRun

SpecQueue == InitQueue /\ [][NextQueue]_vars

(***************************************************************************)
(* Claims about the exports and the queue                                  *)
(***************************************************************************)

\* The last run of main was one it handles as --export-library: the option
\* was given, and none of help, stats and export, which main tests first.
ExportLibraryRan == mainPc = "closed" /\ OptionBranch(argv) = "export-library"

\* C15: --export-library writes exactly the stored resources whose source is
\* readwise or zotero, one entry of library.json per such row and no entry
\* for a row of any other source, and the store holds after the run the rows
\* it held before: none inserted, updated or deleted.
C15_ExportLibraryWritesLibraryRows ==
    ExportLibraryRan =>
        /\ publicData.library # None
        /\ LET out    == publicData.library[1]
               stored == {x \in rows0 : x.source \in {"readwise", "zotero"}}
           IN  /\ Len(out) = Cardinality(stored)
               /\ \A x \in stored :
                     \E k \in DOMAIN out :
                        /\ out[k].id = x.id /\ out[k].source = x.source
                        /\ out[k].type = x.type /\ out[k].title = x.title
                        /\ Some(out[k].url) = x.url /\ out[k].author = x.author
               /\ \A k \in DOMAIN out : \E x \in stored : x.id = out[k].id
        /\ rows = rows0

\* --export-library has run over a store that holds a row of the library and
\* a row of another source.
LibraryExportedBesideOtherRows ==
    /\ ExportLibraryRan
    /\ \E x \in rows0 : x.source = "zotero"
    /\ \E x \in rows0 : x.source = "tmdb"
    /\ Len(publicData.library[1]) = 1

\* C16: once updateResourceStatus has been applied to a stored resource,
\* every later upsertResource for the same id leaves its status and its
\* queue_priority as that call left them, whatever the upsert carries.
C16_CuratedStatusSurvivesUpsert ==
    \A c \in curated :
        \E x \in rows :
            /\ x.id = c.id
            /\ x.status = c.status
            /\ x.queue_priority = c.queue_priority

\* A row whose status was set to done by updateResourceStatus has since been
\* upserted from another source.
CuratedRowUpsertedAgain ==
    \E c \in curated, x \in rows :
        /\ x.id = c.id
        /\ x.source # c.source
        /\ c.status = Some("done") /\ c.queue_priority # None

\* The last run of main was one it handles as --export-now.
ExportNowRan == mainPc = "closed" /\ OptionBranch(argv) = "export-now"

\* C20: getNowResources returns exactly the stored resources whose status is
\* 'now' or 'next', every 'now' resource before every 'next' resource and,
\* within one status, in ascending queue_priority, the resources without a
\* priority last.  (Seen in the now.json that --export-now writes from it.)
C20_QueueOrder ==
    ExportNowRan =>
        /\ publicData.now # None
        /\ LET out    == publicData.now[1]
               queued == {x \in rows0 : x.status = Some("now") \/ x.status = Some("next")}
           IN  /\ Len(out) = Cardinality(queued)
               /\ \A x \in queued :
                     \E k \in DOMAIN out :
                        /\ out[k].id = x.id /\ out[k].status = x.status
                        /\ out[k].queuePriority = x.queue_priority
               /\ \A k \in DOMAIN out : \E x \in queued : x.id = out[k].id
               /\ \A i, j \in DOMAIN out :
                     i < j =>
                        /\ out[i].status = Some("next") => out[j].status = Some("next")
                        /\ out[i].status = out[j].status =>
                              /\ out[i].queuePriority = None => out[j].queuePriority = None
                              /\ (out[i].queuePriority # None /\ out[j].queuePriority # None)
                                    => out[i].queuePriority[1] <= out[j].queuePriority[1]

\* --export-now has written two resources of one status, the one without a
\* priority after the one with a priority.
QueueExportedWithUnprioritised ==
    /\ ExportNowRan
    /\ Len(publicData.now[1]) = 2
    /\ publicData.now[1][1].status = publicData.now[1][2].status
    /\ publicData.now[1][1].queuePriority # None
    /\ publicData.now[1][2].queuePriority = None

(***************************************************************************)
(* Claims about the library's list                                         *)
(***************************************************************************)

\* C17: whenever the resources list given to ResourceList changes (a search,
\* tag, source, type or sort change in LibraryExplorer), ResourceList returns
\* to its first page: page = 0 after every step of LibraryExplorer that
\* changes the sorted filtered list.
C17_ListChangeReturnsToFirstPage ==
    [][ (Mounted({"library"}) /\ Filtered(ex') # Filtered(ex)) => ex'.page = 0 ]_vars

(***************************************************************************)
(* Claims about the filters                                                *)
(***************************************************************************)

\* The texts of a record the search looks into.
SearchFields(kind, r) ==
    CASE kind = "books" -> {r.title, r.author, r.additionalAuthors}
      [] kind = "music" -> {r.name, r.artistNames, r.albumName}
      [] kind = "library" ->
            {r.title} \cup Range(r.author) \cup Range(r.description) \cup Range(r.tags)

\* Record r passes the search box: the box is empty or blank, or one of the
\* texts contains the query as typed, letter case aside.
PassesSearch(e, r) ==
    trim(e.search) # <<>> =>
        \E text \in SearchFields(e.kind, r) : includes(toLowerCase(text), toLowerCase(e.search))

\* Record r passes the decade buttons: none is pressed, or the one of its decade is.
PassesDecades(e, r) ==
    e.selectedDecades # <<>> => \E k \in DOMAIN e.selectedDecades : e.selectedDecades[k] = r.decade

\* Record r passes the tag tree: no tag is selected, or r is a resource of the
\* node the hierarchy's lookup gives for the selected key.
PassesTag(e, r) ==
    e.selectedTagKey # None =>
        r.id \in e.hierarchy.nodes[e.hierarchy.tagToNode[normalizeTag(e.selectedTagKey[1])]].resourceIds

\* Record r satisfies every active filter of explorer e.
Satisfies(e, r) ==
    /\ PassesSearch(e, r)
    /\ e.kind = "books" =>
          /\ e.shelfFilter # "all" => r.exclusiveShelf = e.shelfFilter
          /\ PassesDecades(e, r)
          /\ e.selectedRecommender # None => r.recommender = e.selectedRecommender
    /\ e.kind = "music" => PassesDecades(e, r)
    /\ e.kind = "library" =>
          /\ PassesTag(e, r)
          /\ e.sourceFilter # "all" => r.source = e.sourceFilter
          /\ e.typeFilter # "all" => r.type = e.typeFilter

\* Every filter of explorer e is in its neutral setting.
AllNeutral(e) ==
    /\ trim(e.search) = <<>>
    /\ e.kind = "books" =>
          e.shelfFilter = "all" /\ e.selectedDecades = <<>> /\ e.selectedRecommender = None
    /\ e.kind = "music" => e.selectedDecades = <<>>
    /\ e.kind = "library" =>
          e.selectedTagKey = None /\ e.sourceFilter = "all" /\ e.typeFilter = "all"

\* One filter of the explorer's useMemo, applied to a list as the component
\* applies it.
ApplyFilter(e, name, list) ==
    CASE name = "search" ->
            (CASE e.kind = "books" -> searchBooks(list, e.search)
               [] e.kind = "music" -> searchTracks(list, e.search)
               [] e.kind = "library" ->
                     IF e.search # <<>> THEN searchResources(list, e.search) ELSE list)
      [] name = "shelf" -> filterByShelf(list, e.shelfFilter)
      [] name = "decades" -> filterByDecades(list, e.selectedDecades)
      [] name = "recommender" -> filterByRecommender(list, e.selectedRecommender)
      [] name = "tag" ->
            IF e.selectedTagKey # None /\ e.selectedTagKey # Some(<<>>)
            THEN filterByTagNode(list, e.hierarchy, e.selectedTagKey) ELSE list
      [] name = "source" ->
            IF e.sourceFilter # "all" THEN filterBySource(list, e.sourceFilter) ELSE list
      [] name = "type" ->
            IF e.typeFilter # "all" THEN filterByType(list, e.typeFilter) ELSE list

\* The loaded array after the first k filters of a sequence of filter names.
RECURSIVE ApplyFilters(_, _, _)
ApplyFilters(e, names, k) ==
    IF k = 0 THEN e.items ELSE ApplyFilter(e, names[k], ApplyFilters(e, names, k - 1))

\* The orders in which a set of filters can be applied.
OrdersOf(names) ==
    {p \in [1..Cardinality(names) -> names] : \A i, j \in DOMAIN p : i # j => p[i] # p[j]}

FilterOrders ==
    [ books   |-> OrdersOf({"search", "shelf", "decades", "recommender"}),
      music   |-> OrdersOf({"search", "decades"}),
      library |-> OrdersOf({"search", "tag", "source", "type"}) ]

\* C18: the filtered list of an explorer holds exactly the records of the
\* loaded array that satisfy every active filter (search, shelf, source,
\* type, decades, recommender, tag), in their order in the loaded array; with
\* every filter in its neutral setting it is the loaded array; and applying
\* the filters in any other order gives the same list.
C18_FilteredIsConjunctionOfFilters ==
    ex # None =>
        /\ Unsorted(ex) = SelectSeq(ex.items, LAMBDA r : Satisfies(ex, r))
        /\ AllNeutral(ex) => Unsorted(ex) = ex.items
        /\ \A names \in FilterOrders[ex.kind] :
              ApplyFilters(ex, names, Len(names)) = Unsorted(ex)

\* BookExplorer with a search, a shelf and a decade chosen that together keep
\* some books and remove others, each of the three removing a book the other
\* two keep.
ThreeBookFiltersActive ==
    /\ Mounted({"books"})
    /\ trim(ex.search) # <<>> /\ ex.shelfFilter # "all" /\ ex.selectedDecades # <<>>
    /\ Unsorted(ex) # <<>>
    /\ \A name \in {"search", "shelf", "decades"} :
          \E k \in DOMAIN ex.items :
             LET others == [ex EXCEPT ![IF name = "search" THEN "search"
                                        ELSE IF name = "shelf" THEN "shelfFilter"
                                        ELSE "selectedDecades"] =
                                          IF name = "search" THEN <<>>
                                          ELSE IF name = "shelf" THEN "all" ELSE <<>>]
             IN  Satisfies(others, ex.items[k]) /\ ~Satisfies(ex, ex.items[k])

(***************************************************************************)
(* Scenario: rows selected in BookExplorer and MusicExplorer               *)
(***************************************************************************)
\* The length of a loaded array that fills one page and begins a second.
TwoPagesOfBooks == 26

\* Editions of one book under ids of their own: a search or a filter keeps
\* all of them or none.
EditionAt(i) == [BookAt(7) EXCEPT !.id = i]

InitSelection ==
    /\ rows = {} /\ dbOpen = FALSE /\ dbCall = NoCall /\ dbCalls = 0 /\ fetchCalls = 0
    /\ QuietNet /\ faults = 0 /\ IdleProcess
    /\ cmds = {} /\ runLimit = 0 /\ envKeys = {} /\ files = NoFiles /\ NoServers
    /\ lib = None /\ publicData = NoData /\ curated = {}
    /\ \/ ex = BookExplorer([i \in 1..FewRecords |-> BookAt(i)])
       \/ ex = BookExplorer([i \in 1..TwoPagesOfBooks |-> EditionAt(i)])
       \/ ex = MusicExplorer([i \in 1..FewRecords |-> TrackAt(i)])

NextSelection ==
    \/ HandleSearchChange({<<>>, <<"D", "u">>})
    \/ ShelfClick({"all", "read"})
    \/ ToggleDecade
    \/ RecommenderClick
    \/ ClearFilters
    \/ HandleSort([books |-> {"pages"}, music |-> {"duration"}])
    \/ PreviousPage
    \/ NextPage
    \/ ToggleSelection(1)
    \/ SelectAllVisible
    \/ ClearSelection

SpecSelection == InitSelection /\ [][NextSelection]_vars

(***************************************************************************)
(* Claims about the selection                                              *)
(***************************************************************************)

\* The settings of an explorer other than its selection.
Settings(e) == [e EXCEPT !.selectedIds = {}]

\* C19: in BookExplorer and MusicExplorer the selection changes only through
\* toggling a row, 'Select page' and 'Clear': a step that changes the search,
\* a filter, the sort or the page leaves the selected ids as they were, and a
\* step that changes them changes nothing else and toggles the id of one row
\* displayed, adds the ids of the rows displayed or empties the selection;
\* 'Select page' adds exactly the ids of the rows displayed and keeps every
\* id selected before; and the selected ids are always ids of loaded records.
C19_SelectionChangesOnlyByItsButtons ==
    [][ Mounted({"books", "music"}) =>
          LET old == ex.selectedIds
              new == ex'.selectedIds
          IN  /\ Settings(ex') # Settings(ex) => new = old
              /\ Settings(ex') = Settings(ex) =>
                    \A shown \in {IdsOf(paginated(ex))} :
                       /\ new # old =>
                             \/ new = {}
                             \/ \E id \in shown :
                                   new = (IF id \in old THEN old \ {id} ELSE old \cup {id})
                             \/ new = old \cup shown
                       /\ SelectAllVisible => new = old \cup shown
              /\ new \subseteq IdsOf(ex'.items) ]_vars

\* On the second page, every row displayed is selected beside a row of the
\* first page selected before.
SecondPageAddedToSelection ==
    /\ Mounted({"books", "music"})
    /\ ex.page = 1
    /\ paginated(ex) # <<>>
    /\ IdsOf(paginated(ex)) \subseteq ex.selectedIds
    /\ \E id \in ex.selectedIds : id \notin IdsOf(paginated(ex))

(***************************************************************************)
(* Scenario: command lines with options and a sync command                 *)
(***************************************************************************)
MaxOptionRuns == 2

WithOptions(command, names, text) ==
    [NoArgs EXCEPT !.command = command, !.options = names, !.export = text]

\* bun sync <command> with the options main tests, alone and together, and
\* with --export followed by a type, by all, and by the empty text.
OptionCmds ==
    { WithOptions(command, names, None) :
        command \in {"books", "rawg"},
        names \in {{"stats"}, {"export-library"}, {"export-now"}, {"help"},
                   {"help", "stats"}, {"stats", "export-now"}} }
    \cup { WithOptions(command, names, Some(text)) :
             command \in {"books", "rawg"}, names \in {{}, {"export-now"}},
             text \in {"all", "book", ""} }

InitOptions ==
    /\ rows = {} /\ dbOpen = FALSE
    /\ NoDirect /\ QuietNet /\ faults = MaxLocalFaults /\ IdleProcess
    /\ cmds = OptionCmds
    /\ runLimit = MaxOptionRuns
    /\ envKeys = AllKeys
    /\ files = SomeFiles
    /\ SmallServers

NextOptions ==
    \/ OptionRun
    \/ ProcessStart \/ MainSwitch \/ MainCallNext \/ MainResume \/ MainCrash \/ MainReport
    \/ BooksStart \/ BooksExists \/ BooksText
    \/ RawgStart \/ RawgResponse \/ RawgDelayElapsed

SpecOptions == InitOptions /\ [][NextOptions]_vars

(***************************************************************************)
(* Claims about the options                                                *)
(***************************************************************************)

\* The command line of a run names one of --stats, --export, --export-library
\* and --export-now.
ExportOrStatsGiven(args) ==
    \/ args.options \cap {"stats", "export-library", "export-now"} # {}
    \/ args.export # None

\* C21: when --stats, --export, --export-library or --export-now is given,
\* main performs no sync whatever positional command accompanies it: no sync
\* function is called, no request is issued and no resource row is inserted
\* or updated; and a run with --help does not open the database.
C21_OptionsRunNoSync ==
    [][ /\ ExportOrStatsGiven(argv') =>
              /\ \A f \in Syncs : pc'[f] = "idle"
              /\ events' = <<>> /\ upsertLog' = <<>>
              /\ reqLog' = <<>> /\ inflight' = 0
              /\ rows' = rows0'
        /\ ("help" \in argv'.options /\ runs' # runs) => (dbOpen' = dbOpen /\ ~dbOpen')
      ]_vars

\* What the code does keep of C21: a run that one of main's option tests
\* catches (--export with a text that is not empty) performs no sync.
CaughtOptionsRunNoSync ==
    (mainPc # "idle" /\ OptionBranch(argv) # "command") =>
        /\ \A f \in Syncs : pc[f] = "idle"
        /\ events = <<>> /\ upsertLog = <<>>
        /\ reqLog = <<>> /\ inflight = 0
        /\ rows = rows0
        /\ mainPc = "closed" /\ ~dbOpen

\* bun sync rawg --export-now has run after a run that stored rows.
ExportNowRanBesideCommand ==
    /\ mainPc = "closed" /\ OptionBranch(argv) = "export-now"
    /\ argv.command = "rawg"
    /\ rows # {}

====
